---- MODULE Spec2Model ----
(***************************************************************************)
(* EISH5 Morse translator: the codec (textToMorse / morseToText), the      *)
(* timing generator (generateTimingSequence), offline rendering            *)
(* (renderAudioToWav) and the real-time playback session of App.tsx        *)
(* (playSequence / stopPlayback and the timers they register).             *)
(*                                                                         *)
(* A JavaScript string is modelled as a sequence of one-character strings, *)
(* a JavaScript number as the IEEE 754 double it is; durations are in ms.  *)
(***************************************************************************)
EXTENDS Integers, Sequences, FiniteSets, TLC

(* ------------------------------ bounds -------------------------------- *)

\* longest text handed to textToMorse
MaxTextLen == 4
\* longest enumerated code string handed to generateTimingSequence
MaxCodeLen == 4
\* number of real-time sessions playSequence may start in one run
MaxSessions == 2
\* settings changes (option toggles, slider and select moves) the user makes
\* in one run of the App
MaxSettingsChanges == 1

(* ------------------------- string primitives -------------------------- *)

\* A character is one UTF-16 code unit; one outside Latin-1 is written by
\* its number, "U+0131".
\* The letters of ASCII and Latin-1 whose upper case is one character of
\* Latin-1
LOWER ==
  <<
    "a", "b", "c", "d", "e", "f", "g", "h", "i", "j", "k", "l", "m", "n", "o",
    "p", "q", "r", "s", "t", "u", "v", "w", "x", "y", "z", "à", "á", "â", "ã",
    "ä", "å", "æ", "ç", "è", "é", "ê", "ë", "ì", "í", "î", "ï", "ð", "ñ", "ò",
    "ó", "ô", "õ", "ö", "ø", "ù", "ú", "û", "ü", "ý", "þ" >>

UPPER ==
  <<
    "A", "B", "C", "D", "E", "F", "G", "H", "I", "J", "K", "L", "M", "N", "O",
    "P", "Q", "R", "S", "T", "U", "V", "W", "X", "Y", "Z", "À", "Á", "Â", "Ã",
    "Ä", "Å", "Æ", "Ç", "È", "É", "Ê", "Ë", "Ì", "Í", "Î", "Ï", "Ð", "Ñ", "Ò",
    "Ó", "Ô", "Õ", "Ö", "Ø", "Ù", "Ú", "Û", "Ü", "Ý", "Þ" >>

\* the other characters whose upper case is one character, in the order of
\* their numbers, and their upper cases in the same order
OTHER_LOWER ==
  <<
    "µ", "ÿ", "U+0101", "U+0103", "U+0105", "U+0107", "U+0109", "U+010B",
    "U+010D", "U+010F", "U+0111", "U+0113", "U+0115", "U+0117", "U+0119",
    "U+011B", "U+011D", "U+011F", "U+0121", "U+0123", "U+0125", "U+0127",
    "U+0129", "U+012B", "U+012D", "U+012F", "U+0131", "U+0133", "U+0135",
    "U+0137", "U+013A", "U+013C", "U+013E", "U+0140", "U+0142", "U+0144",
    "U+0146", "U+0148", "U+014B", "U+014D", "U+014F", "U+0151", "U+0153",
    "U+0155", "U+0157", "U+0159", "U+015B", "U+015D", "U+015F", "U+0161",
    "U+0163", "U+0165", "U+0167", "U+0169", "U+016B", "U+016D", "U+016F",
    "U+0171", "U+0173", "U+0175", "U+0177", "U+017A", "U+017C", "U+017E",
    "U+017F", "U+0180", "U+0183", "U+0185", "U+0188", "U+018C", "U+0192",
    "U+0195", "U+0199", "U+019A", "U+019B", "U+019E", "U+01A1", "U+01A3",
    "U+01A5", "U+01A8", "U+01AD", "U+01B0", "U+01B4", "U+01B6", "U+01B9",
    "U+01BD", "U+01BF", "U+01C5", "U+01C6", "U+01C8", "U+01C9", "U+01CB",
    "U+01CC", "U+01CE", "U+01D0", "U+01D2", "U+01D4", "U+01D6", "U+01D8",
    "U+01DA", "U+01DC", "U+01DD", "U+01DF", "U+01E1", "U+01E3", "U+01E5",
    "U+01E7", "U+01E9", "U+01EB", "U+01ED", "U+01EF", "U+01F2", "U+01F3",
    "U+01F5", "U+01F9", "U+01FB", "U+01FD", "U+01FF", "U+0201", "U+0203",
    "U+0205", "U+0207", "U+0209", "U+020B", "U+020D", "U+020F", "U+0211",
    "U+0213", "U+0215", "U+0217", "U+0219", "U+021B", "U+021D", "U+021F",
    "U+0223", "U+0225", "U+0227", "U+0229", "U+022B", "U+022D", "U+022F",
    "U+0231", "U+0233", "U+023C", "U+023F", "U+0240", "U+0242", "U+0247",
    "U+0249", "U+024B", "U+024D", "U+024F", "U+0250", "U+0251", "U+0252",
    "U+0253", "U+0254", "U+0256", "U+0257", "U+0259", "U+025B", "U+025C",
    "U+0260", "U+0261", "U+0263", "U+0264", "U+0265", "U+0266", "U+0268",
    "U+0269", "U+026A", "U+026B", "U+026C", "U+026F", "U+0271", "U+0272",
    "U+0275", "U+027D", "U+0280", "U+0282", "U+0283", "U+0287", "U+0288",
    "U+0289", "U+028A", "U+028B", "U+028C", "U+0292", "U+029D", "U+029E",
    "U+0345", "U+0371", "U+0373", "U+0377", "U+037B", "U+037C", "U+037D",
    "U+03AC", "U+03AD", "U+03AE", "U+03AF", "U+03B1", "U+03B2", "U+03B3",
    "U+03B4", "U+03B5", "U+03B6", "U+03B7", "U+03B8", "U+03B9", "U+03BA",
    "U+03BB", "U+03BC", "U+03BD", "U+03BE", "U+03BF", "U+03C0", "U+03C1",
    "U+03C2", "U+03C3", "U+03C4", "U+03C5", "U+03C6", "U+03C7", "U+03C8",
    "U+03C9", "U+03CA", "U+03CB", "U+03CC", "U+03CD", "U+03CE", "U+03D0",
    "U+03D1", "U+03D5", "U+03D6", "U+03D7", "U+03D9", "U+03DB", "U+03DD",
    "U+03DF", "U+03E1", "U+03E3", "U+03E5", "U+03E7", "U+03E9", "U+03EB",
    "U+03ED", "U+03EF", "U+03F0", "U+03F1", "U+03F2", "U+03F3", "U+03F5",
    "U+03F8", "U+03FB", "U+0430", "U+0431", "U+0432", "U+0433", "U+0434",
    "U+0435", "U+0436", "U+0437", "U+0438", "U+0439", "U+043A", "U+043B",
    "U+043C", "U+043D", "U+043E", "U+043F", "U+0440", "U+0441", "U+0442",
    "U+0443", "U+0444", "U+0445", "U+0446", "U+0447", "U+0448", "U+0449",
    "U+044A", "U+044B", "U+044C", "U+044D", "U+044E", "U+044F", "U+0450",
    "U+0451", "U+0452", "U+0453", "U+0454", "U+0455", "U+0456", "U+0457",
    "U+0458", "U+0459", "U+045A", "U+045B", "U+045C", "U+045D", "U+045E",
    "U+045F", "U+0461", "U+0463", "U+0465", "U+0467", "U+0469", "U+046B",
    "U+046D", "U+046F", "U+0471", "U+0473", "U+0475", "U+0477", "U+0479",
    "U+047B", "U+047D", "U+047F", "U+0481", "U+048B", "U+048D", "U+048F",
    "U+0491", "U+0493", "U+0495", "U+0497", "U+0499", "U+049B", "U+049D",
    "U+049F", "U+04A1", "U+04A3", "U+04A5", "U+04A7", "U+04A9", "U+04AB",
    "U+04AD", "U+04AF", "U+04B1", "U+04B3", "U+04B5", "U+04B7", "U+04B9",
    "U+04BB", "U+04BD", "U+04BF", "U+04C2", "U+04C4", "U+04C6", "U+04C8",
    "U+04CA", "U+04CC", "U+04CE", "U+04CF", "U+04D1", "U+04D3", "U+04D5",
    "U+04D7", "U+04D9", "U+04DB", "U+04DD", "U+04DF", "U+04E1", "U+04E3",
    "U+04E5", "U+04E7", "U+04E9", "U+04EB", "U+04ED", "U+04EF", "U+04F1",
    "U+04F3", "U+04F5", "U+04F7", "U+04F9", "U+04FB", "U+04FD", "U+04FF",
    "U+0501", "U+0503", "U+0505", "U+0507", "U+0509", "U+050B", "U+050D",
    "U+050F", "U+0511", "U+0513", "U+0515", "U+0517", "U+0519", "U+051B",
    "U+051D", "U+051F", "U+0521", "U+0523", "U+0525", "U+0527", "U+0529",
    "U+052B", "U+052D", "U+052F", "U+0561", "U+0562", "U+0563", "U+0564",
    "U+0565", "U+0566", "U+0567", "U+0568", "U+0569", "U+056A", "U+056B",
    "U+056C", "U+056D", "U+056E", "U+056F", "U+0570", "U+0571", "U+0572",
    "U+0573", "U+0574", "U+0575", "U+0576", "U+0577", "U+0578", "U+0579",
    "U+057A", "U+057B", "U+057C", "U+057D", "U+057E", "U+057F", "U+0580",
    "U+0581", "U+0582", "U+0583", "U+0584", "U+0585", "U+0586", "U+10D0",
    "U+10D1", "U+10D2", "U+10D3", "U+10D4", "U+10D5", "U+10D6", "U+10D7",
    "U+10D8", "U+10D9", "U+10DA", "U+10DB", "U+10DC", "U+10DD", "U+10DE",
    "U+10DF", "U+10E0", "U+10E1", "U+10E2", "U+10E3", "U+10E4", "U+10E5",
    "U+10E6", "U+10E7", "U+10E8", "U+10E9", "U+10EA", "U+10EB", "U+10EC",
    "U+10ED", "U+10EE", "U+10EF", "U+10F0", "U+10F1", "U+10F2", "U+10F3",
    "U+10F4", "U+10F5", "U+10F6", "U+10F7", "U+10F8", "U+10F9", "U+10FA",
    "U+10FD", "U+10FE", "U+10FF", "U+13F8", "U+13F9", "U+13FA", "U+13FB",
    "U+13FC", "U+13FD", "U+1C80", "U+1C81", "U+1C82", "U+1C83", "U+1C84",
    "U+1C85", "U+1C86", "U+1C87", "U+1C88", "U+1C8A", "U+1D79", "U+1D7D",
    "U+1D8E", "U+1E01", "U+1E03", "U+1E05", "U+1E07", "U+1E09", "U+1E0B",
    "U+1E0D", "U+1E0F", "U+1E11", "U+1E13", "U+1E15", "U+1E17", "U+1E19",
    "U+1E1B", "U+1E1D", "U+1E1F", "U+1E21", "U+1E23", "U+1E25", "U+1E27",
    "U+1E29", "U+1E2B", "U+1E2D", "U+1E2F", "U+1E31", "U+1E33", "U+1E35",
    "U+1E37", "U+1E39", "U+1E3B", "U+1E3D", "U+1E3F", "U+1E41", "U+1E43",
    "U+1E45", "U+1E47", "U+1E49", "U+1E4B", "U+1E4D", "U+1E4F", "U+1E51",
    "U+1E53", "U+1E55", "U+1E57", "U+1E59", "U+1E5B", "U+1E5D", "U+1E5F",
    "U+1E61", "U+1E63", "U+1E65", "U+1E67", "U+1E69", "U+1E6B", "U+1E6D",
    "U+1E6F", "U+1E71", "U+1E73", "U+1E75", "U+1E77", "U+1E79", "U+1E7B",
    "U+1E7D", "U+1E7F", "U+1E81", "U+1E83", "U+1E85", "U+1E87", "U+1E89",
    "U+1E8B", "U+1E8D", "U+1E8F", "U+1E91", "U+1E93", "U+1E95", "U+1E9B",
    "U+1EA1", "U+1EA3", "U+1EA5", "U+1EA7", "U+1EA9", "U+1EAB", "U+1EAD",
    "U+1EAF", "U+1EB1", "U+1EB3", "U+1EB5", "U+1EB7", "U+1EB9", "U+1EBB",
    "U+1EBD", "U+1EBF", "U+1EC1", "U+1EC3", "U+1EC5", "U+1EC7", "U+1EC9",
    "U+1ECB", "U+1ECD", "U+1ECF", "U+1ED1", "U+1ED3", "U+1ED5", "U+1ED7",
    "U+1ED9", "U+1EDB", "U+1EDD", "U+1EDF", "U+1EE1", "U+1EE3", "U+1EE5",
    "U+1EE7", "U+1EE9", "U+1EEB", "U+1EED", "U+1EEF", "U+1EF1", "U+1EF3",
    "U+1EF5", "U+1EF7", "U+1EF9", "U+1EFB", "U+1EFD", "U+1EFF", "U+1F00",
    "U+1F01", "U+1F02", "U+1F03", "U+1F04", "U+1F05", "U+1F06", "U+1F07",
    "U+1F10", "U+1F11", "U+1F12", "U+1F13", "U+1F14", "U+1F15", "U+1F20",
    "U+1F21", "U+1F22", "U+1F23", "U+1F24", "U+1F25", "U+1F26", "U+1F27",
    "U+1F30", "U+1F31", "U+1F32", "U+1F33", "U+1F34", "U+1F35", "U+1F36",
    "U+1F37", "U+1F40", "U+1F41", "U+1F42", "U+1F43", "U+1F44", "U+1F45",
    "U+1F51", "U+1F53", "U+1F55", "U+1F57", "U+1F60", "U+1F61", "U+1F62",
    "U+1F63", "U+1F64", "U+1F65", "U+1F66", "U+1F67", "U+1F70", "U+1F71",
    "U+1F72", "U+1F73", "U+1F74", "U+1F75", "U+1F76", "U+1F77", "U+1F78",
    "U+1F79", "U+1F7A", "U+1F7B", "U+1F7C", "U+1F7D", "U+1FB0", "U+1FB1",
    "U+1FBE", "U+1FD0", "U+1FD1", "U+1FE0", "U+1FE1", "U+1FE5", "U+214E",
    "U+2170", "U+2171", "U+2172", "U+2173", "U+2174", "U+2175", "U+2176",
    "U+2177", "U+2178", "U+2179", "U+217A", "U+217B", "U+217C", "U+217D",
    "U+217E", "U+217F", "U+2184", "U+24D0", "U+24D1", "U+24D2", "U+24D3",
    "U+24D4", "U+24D5", "U+24D6", "U+24D7", "U+24D8", "U+24D9", "U+24DA",
    "U+24DB", "U+24DC", "U+24DD", "U+24DE", "U+24DF", "U+24E0", "U+24E1",
    "U+24E2", "U+24E3", "U+24E4", "U+24E5", "U+24E6", "U+24E7", "U+24E8",
    "U+24E9", "U+2C30", "U+2C31", "U+2C32", "U+2C33", "U+2C34", "U+2C35",
    "U+2C36", "U+2C37", "U+2C38", "U+2C39", "U+2C3A", "U+2C3B", "U+2C3C",
    "U+2C3D", "U+2C3E", "U+2C3F", "U+2C40", "U+2C41", "U+2C42", "U+2C43",
    "U+2C44", "U+2C45", "U+2C46", "U+2C47", "U+2C48", "U+2C49", "U+2C4A",
    "U+2C4B", "U+2C4C", "U+2C4D", "U+2C4E", "U+2C4F", "U+2C50", "U+2C51",
    "U+2C52", "U+2C53", "U+2C54", "U+2C55", "U+2C56", "U+2C57", "U+2C58",
    "U+2C59", "U+2C5A", "U+2C5B", "U+2C5C", "U+2C5D", "U+2C5E", "U+2C5F",
    "U+2C61", "U+2C65", "U+2C66", "U+2C68", "U+2C6A", "U+2C6C", "U+2C73",
    "U+2C76", "U+2C81", "U+2C83", "U+2C85", "U+2C87", "U+2C89", "U+2C8B",
    "U+2C8D", "U+2C8F", "U+2C91", "U+2C93", "U+2C95", "U+2C97", "U+2C99",
    "U+2C9B", "U+2C9D", "U+2C9F", "U+2CA1", "U+2CA3", "U+2CA5", "U+2CA7",
    "U+2CA9", "U+2CAB", "U+2CAD", "U+2CAF", "U+2CB1", "U+2CB3", "U+2CB5",
    "U+2CB7", "U+2CB9", "U+2CBB", "U+2CBD", "U+2CBF", "U+2CC1", "U+2CC3",
    "U+2CC5", "U+2CC7", "U+2CC9", "U+2CCB", "U+2CCD", "U+2CCF", "U+2CD1",
    "U+2CD3", "U+2CD5", "U+2CD7", "U+2CD9", "U+2CDB", "U+2CDD", "U+2CDF",
    "U+2CE1", "U+2CE3", "U+2CEC", "U+2CEE", "U+2CF3", "U+2D00", "U+2D01",
    "U+2D02", "U+2D03", "U+2D04", "U+2D05", "U+2D06", "U+2D07", "U+2D08",
    "U+2D09", "U+2D0A", "U+2D0B", "U+2D0C", "U+2D0D", "U+2D0E", "U+2D0F",
    "U+2D10", "U+2D11", "U+2D12", "U+2D13", "U+2D14", "U+2D15", "U+2D16",
    "U+2D17", "U+2D18", "U+2D19", "U+2D1A", "U+2D1B", "U+2D1C", "U+2D1D",
    "U+2D1E", "U+2D1F", "U+2D20", "U+2D21", "U+2D22", "U+2D23", "U+2D24",
    "U+2D25", "U+2D27", "U+2D2D", "U+A641", "U+A643", "U+A645", "U+A647",
    "U+A649", "U+A64B", "U+A64D", "U+A64F", "U+A651", "U+A653", "U+A655",
    "U+A657", "U+A659", "U+A65B", "U+A65D", "U+A65F", "U+A661", "U+A663",
    "U+A665", "U+A667", "U+A669", "U+A66B", "U+A66D", "U+A681", "U+A683",
    "U+A685", "U+A687", "U+A689", "U+A68B", "U+A68D", "U+A68F", "U+A691",
    "U+A693", "U+A695", "U+A697", "U+A699", "U+A69B", "U+A723", "U+A725",
    "U+A727", "U+A729", "U+A72B", "U+A72D", "U+A72F", "U+A733", "U+A735",
    "U+A737", "U+A739", "U+A73B", "U+A73D", "U+A73F", "U+A741", "U+A743",
    "U+A745", "U+A747", "U+A749", "U+A74B", "U+A74D", "U+A74F", "U+A751",
    "U+A753", "U+A755", "U+A757", "U+A759", "U+A75B", "U+A75D", "U+A75F",
    "U+A761", "U+A763", "U+A765", "U+A767", "U+A769", "U+A76B", "U+A76D",
    "U+A76F", "U+A77A", "U+A77C", "U+A77F", "U+A781", "U+A783", "U+A785",
    "U+A787", "U+A78C", "U+A791", "U+A793", "U+A794", "U+A797", "U+A799",
    "U+A79B", "U+A79D", "U+A79F", "U+A7A1", "U+A7A3", "U+A7A5", "U+A7A7",
    "U+A7A9", "U+A7B5", "U+A7B7", "U+A7B9", "U+A7BB", "U+A7BD", "U+A7BF",
    "U+A7C1", "U+A7C3", "U+A7C8", "U+A7CA", "U+A7CD", "U+A7CF", "U+A7D1",
    "U+A7D3", "U+A7D5", "U+A7D7", "U+A7D9", "U+A7DB", "U+A7F6", "U+AB53",
    "U+AB70", "U+AB71", "U+AB72", "U+AB73", "U+AB74", "U+AB75", "U+AB76",
    "U+AB77", "U+AB78", "U+AB79", "U+AB7A", "U+AB7B", "U+AB7C", "U+AB7D",
    "U+AB7E", "U+AB7F", "U+AB80", "U+AB81", "U+AB82", "U+AB83", "U+AB84",
    "U+AB85", "U+AB86", "U+AB87", "U+AB88", "U+AB89", "U+AB8A", "U+AB8B",
    "U+AB8C", "U+AB8D", "U+AB8E", "U+AB8F", "U+AB90", "U+AB91", "U+AB92",
    "U+AB93", "U+AB94", "U+AB95", "U+AB96", "U+AB97", "U+AB98", "U+AB99",
    "U+AB9A", "U+AB9B", "U+AB9C", "U+AB9D", "U+AB9E", "U+AB9F", "U+ABA0",
    "U+ABA1", "U+ABA2", "U+ABA3", "U+ABA4", "U+ABA5", "U+ABA6", "U+ABA7",
    "U+ABA8", "U+ABA9", "U+ABAA", "U+ABAB", "U+ABAC", "U+ABAD", "U+ABAE",
    "U+ABAF", "U+ABB0", "U+ABB1", "U+ABB2", "U+ABB3", "U+ABB4", "U+ABB5",
    "U+ABB6", "U+ABB7", "U+ABB8", "U+ABB9", "U+ABBA", "U+ABBB", "U+ABBC",
    "U+ABBD", "U+ABBE", "U+ABBF", "U+FF41", "U+FF42", "U+FF43", "U+FF44",
    "U+FF45", "U+FF46", "U+FF47", "U+FF48", "U+FF49", "U+FF4A", "U+FF4B",
    "U+FF4C", "U+FF4D", "U+FF4E", "U+FF4F", "U+FF50", "U+FF51", "U+FF52",
    "U+FF53", "U+FF54", "U+FF55", "U+FF56", "U+FF57", "U+FF58", "U+FF59",
    "U+FF5A" >>

OTHER_UPPER ==
  <<
    "U+039C", "U+0178", "U+0100", "U+0102", "U+0104", "U+0106", "U+0108",
    "U+010A", "U+010C", "U+010E", "U+0110", "U+0112", "U+0114", "U+0116",
    "U+0118", "U+011A", "U+011C", "U+011E", "U+0120", "U+0122", "U+0124",
    "U+0126", "U+0128", "U+012A", "U+012C", "U+012E", "I", "U+0132", "U+0134",
    "U+0136", "U+0139", "U+013B", "U+013D", "U+013F", "U+0141", "U+0143",
    "U+0145", "U+0147", "U+014A", "U+014C", "U+014E", "U+0150", "U+0152",
    "U+0154", "U+0156", "U+0158", "U+015A", "U+015C", "U+015E", "U+0160",
    "U+0162", "U+0164", "U+0166", "U+0168", "U+016A", "U+016C", "U+016E",
    "U+0170", "U+0172", "U+0174", "U+0176", "U+0179", "U+017B", "U+017D", "S",
    "U+0243", "U+0182", "U+0184", "U+0187", "U+018B", "U+0191", "U+01F6",
    "U+0198", "U+023D", "U+A7DC", "U+0220", "U+01A0", "U+01A2", "U+01A4",
    "U+01A7", "U+01AC", "U+01AF", "U+01B3", "U+01B5", "U+01B8", "U+01BC",
    "U+01F7", "U+01C4", "U+01C4", "U+01C7", "U+01C7", "U+01CA", "U+01CA",
    "U+01CD", "U+01CF", "U+01D1", "U+01D3", "U+01D5", "U+01D7", "U+01D9",
    "U+01DB", "U+018E", "U+01DE", "U+01E0", "U+01E2", "U+01E4", "U+01E6",
    "U+01E8", "U+01EA", "U+01EC", "U+01EE", "U+01F1", "U+01F1", "U+01F4",
    "U+01F8", "U+01FA", "U+01FC", "U+01FE", "U+0200", "U+0202", "U+0204",
    "U+0206", "U+0208", "U+020A", "U+020C", "U+020E", "U+0210", "U+0212",
    "U+0214", "U+0216", "U+0218", "U+021A", "U+021C", "U+021E", "U+0222",
    "U+0224", "U+0226", "U+0228", "U+022A", "U+022C", "U+022E", "U+0230",
    "U+0232", "U+023B", "U+2C7E", "U+2C7F", "U+0241", "U+0246", "U+0248",
    "U+024A", "U+024C", "U+024E", "U+2C6F", "U+2C6D", "U+2C70", "U+0181",
    "U+0186", "U+0189", "U+018A", "U+018F", "U+0190", "U+A7AB", "U+0193",
    "U+A7AC", "U+0194", "U+A7CB", "U+A78D", "U+A7AA", "U+0197", "U+0196",
    "U+A7AE", "U+2C62", "U+A7AD", "U+019C", "U+2C6E", "U+019D", "U+019F",
    "U+2C64", "U+01A6", "U+A7C5", "U+01A9", "U+A7B1", "U+01AE", "U+0244",
    "U+01B1", "U+01B2", "U+0245", "U+01B7", "U+A7B2", "U+A7B0", "U+0399",
    "U+0370", "U+0372", "U+0376", "U+03FD", "U+03FE", "U+03FF", "U+0386",
    "U+0388", "U+0389", "U+038A", "U+0391", "U+0392", "U+0393", "U+0394",
    "U+0395", "U+0396", "U+0397", "U+0398", "U+0399", "U+039A", "U+039B",
    "U+039C", "U+039D", "U+039E", "U+039F", "U+03A0", "U+03A1", "U+03A3",
    "U+03A3", "U+03A4", "U+03A5", "U+03A6", "U+03A7", "U+03A8", "U+03A9",
    "U+03AA", "U+03AB", "U+038C", "U+038E", "U+038F", "U+0392", "U+0398",
    "U+03A6", "U+03A0", "U+03CF", "U+03D8", "U+03DA", "U+03DC", "U+03DE",
    "U+03E0", "U+03E2", "U+03E4", "U+03E6", "U+03E8", "U+03EA", "U+03EC",
    "U+03EE", "U+039A", "U+03A1", "U+03F9", "U+037F", "U+0395", "U+03F7",
    "U+03FA", "U+0410", "U+0411", "U+0412", "U+0413", "U+0414", "U+0415",
    "U+0416", "U+0417", "U+0418", "U+0419", "U+041A", "U+041B", "U+041C",
    "U+041D", "U+041E", "U+041F", "U+0420", "U+0421", "U+0422", "U+0423",
    "U+0424", "U+0425", "U+0426", "U+0427", "U+0428", "U+0429", "U+042A",
    "U+042B", "U+042C", "U+042D", "U+042E", "U+042F", "U+0400", "U+0401",
    "U+0402", "U+0403", "U+0404", "U+0405", "U+0406", "U+0407", "U+0408",
    "U+0409", "U+040A", "U+040B", "U+040C", "U+040D", "U+040E", "U+040F",
    "U+0460", "U+0462", "U+0464", "U+0466", "U+0468", "U+046A", "U+046C",
    "U+046E", "U+0470", "U+0472", "U+0474", "U+0476", "U+0478", "U+047A",
    "U+047C", "U+047E", "U+0480", "U+048A", "U+048C", "U+048E", "U+0490",
    "U+0492", "U+0494", "U+0496", "U+0498", "U+049A", "U+049C", "U+049E",
    "U+04A0", "U+04A2", "U+04A4", "U+04A6", "U+04A8", "U+04AA", "U+04AC",
    "U+04AE", "U+04B0", "U+04B2", "U+04B4", "U+04B6", "U+04B8", "U+04BA",
    "U+04BC", "U+04BE", "U+04C1", "U+04C3", "U+04C5", "U+04C7", "U+04C9",
    "U+04CB", "U+04CD", "U+04C0", "U+04D0", "U+04D2", "U+04D4", "U+04D6",
    "U+04D8", "U+04DA", "U+04DC", "U+04DE", "U+04E0", "U+04E2", "U+04E4",
    "U+04E6", "U+04E8", "U+04EA", "U+04EC", "U+04EE", "U+04F0", "U+04F2",
    "U+04F4", "U+04F6", "U+04F8", "U+04FA", "U+04FC", "U+04FE", "U+0500",
    "U+0502", "U+0504", "U+0506", "U+0508", "U+050A", "U+050C", "U+050E",
    "U+0510", "U+0512", "U+0514", "U+0516", "U+0518", "U+051A", "U+051C",
    "U+051E", "U+0520", "U+0522", "U+0524", "U+0526", "U+0528", "U+052A",
    "U+052C", "U+052E", "U+0531", "U+0532", "U+0533", "U+0534", "U+0535",
    "U+0536", "U+0537", "U+0538", "U+0539", "U+053A", "U+053B", "U+053C",
    "U+053D", "U+053E", "U+053F", "U+0540", "U+0541", "U+0542", "U+0543",
    "U+0544", "U+0545", "U+0546", "U+0547", "U+0548", "U+0549", "U+054A",
    "U+054B", "U+054C", "U+054D", "U+054E", "U+054F", "U+0550", "U+0551",
    "U+0552", "U+0553", "U+0554", "U+0555", "U+0556", "U+1C90", "U+1C91",
    "U+1C92", "U+1C93", "U+1C94", "U+1C95", "U+1C96", "U+1C97", "U+1C98",
    "U+1C99", "U+1C9A", "U+1C9B", "U+1C9C", "U+1C9D", "U+1C9E", "U+1C9F",
    "U+1CA0", "U+1CA1", "U+1CA2", "U+1CA3", "U+1CA4", "U+1CA5", "U+1CA6",
    "U+1CA7", "U+1CA8", "U+1CA9", "U+1CAA", "U+1CAB", "U+1CAC", "U+1CAD",
    "U+1CAE", "U+1CAF", "U+1CB0", "U+1CB1", "U+1CB2", "U+1CB3", "U+1CB4",
    "U+1CB5", "U+1CB6", "U+1CB7", "U+1CB8", "U+1CB9", "U+1CBA", "U+1CBD",
    "U+1CBE", "U+1CBF", "U+13F0", "U+13F1", "U+13F2", "U+13F3", "U+13F4",
    "U+13F5", "U+0412", "U+0414", "U+041E", "U+0421", "U+0422", "U+0422",
    "U+042A", "U+0462", "U+A64A", "U+1C89", "U+A77D", "U+2C63", "U+A7C6",
    "U+1E00", "U+1E02", "U+1E04", "U+1E06", "U+1E08", "U+1E0A", "U+1E0C",
    "U+1E0E", "U+1E10", "U+1E12", "U+1E14", "U+1E16", "U+1E18", "U+1E1A",
    "U+1E1C", "U+1E1E", "U+1E20", "U+1E22", "U+1E24", "U+1E26", "U+1E28",
    "U+1E2A", "U+1E2C", "U+1E2E", "U+1E30", "U+1E32", "U+1E34", "U+1E36",
    "U+1E38", "U+1E3A", "U+1E3C", "U+1E3E", "U+1E40", "U+1E42", "U+1E44",
    "U+1E46", "U+1E48", "U+1E4A", "U+1E4C", "U+1E4E", "U+1E50", "U+1E52",
    "U+1E54", "U+1E56", "U+1E58", "U+1E5A", "U+1E5C", "U+1E5E", "U+1E60",
    "U+1E62", "U+1E64", "U+1E66", "U+1E68", "U+1E6A", "U+1E6C", "U+1E6E",
    "U+1E70", "U+1E72", "U+1E74", "U+1E76", "U+1E78", "U+1E7A", "U+1E7C",
    "U+1E7E", "U+1E80", "U+1E82", "U+1E84", "U+1E86", "U+1E88", "U+1E8A",
    "U+1E8C", "U+1E8E", "U+1E90", "U+1E92", "U+1E94", "U+1E60", "U+1EA0",
    "U+1EA2", "U+1EA4", "U+1EA6", "U+1EA8", "U+1EAA", "U+1EAC", "U+1EAE",
    "U+1EB0", "U+1EB2", "U+1EB4", "U+1EB6", "U+1EB8", "U+1EBA", "U+1EBC",
    "U+1EBE", "U+1EC0", "U+1EC2", "U+1EC4", "U+1EC6", "U+1EC8", "U+1ECA",
    "U+1ECC", "U+1ECE", "U+1ED0", "U+1ED2", "U+1ED4", "U+1ED6", "U+1ED8",
    "U+1EDA", "U+1EDC", "U+1EDE", "U+1EE0", "U+1EE2", "U+1EE4", "U+1EE6",
    "U+1EE8", "U+1EEA", "U+1EEC", "U+1EEE", "U+1EF0", "U+1EF2", "U+1EF4",
    "U+1EF6", "U+1EF8", "U+1EFA", "U+1EFC", "U+1EFE", "U+1F08", "U+1F09",
    "U+1F0A", "U+1F0B", "U+1F0C", "U+1F0D", "U+1F0E", "U+1F0F", "U+1F18",
    "U+1F19", "U+1F1A", "U+1F1B", "U+1F1C", "U+1F1D", "U+1F28", "U+1F29",
    "U+1F2A", "U+1F2B", "U+1F2C", "U+1F2D", "U+1F2E", "U+1F2F", "U+1F38",
    "U+1F39", "U+1F3A", "U+1F3B", "U+1F3C", "U+1F3D", "U+1F3E", "U+1F3F",
    "U+1F48", "U+1F49", "U+1F4A", "U+1F4B", "U+1F4C", "U+1F4D", "U+1F59",
    "U+1F5B", "U+1F5D", "U+1F5F", "U+1F68", "U+1F69", "U+1F6A", "U+1F6B",
    "U+1F6C", "U+1F6D", "U+1F6E", "U+1F6F", "U+1FBA", "U+1FBB", "U+1FC8",
    "U+1FC9", "U+1FCA", "U+1FCB", "U+1FDA", "U+1FDB", "U+1FF8", "U+1FF9",
    "U+1FEA", "U+1FEB", "U+1FFA", "U+1FFB", "U+1FB8", "U+1FB9", "U+0399",
    "U+1FD8", "U+1FD9", "U+1FE8", "U+1FE9", "U+1FEC", "U+2132", "U+2160",
    "U+2161", "U+2162", "U+2163", "U+2164", "U+2165", "U+2166", "U+2167",
    "U+2168", "U+2169", "U+216A", "U+216B", "U+216C", "U+216D", "U+216E",
    "U+216F", "U+2183", "U+24B6", "U+24B7", "U+24B8", "U+24B9", "U+24BA",
    "U+24BB", "U+24BC", "U+24BD", "U+24BE", "U+24BF", "U+24C0", "U+24C1",
    "U+24C2", "U+24C3", "U+24C4", "U+24C5", "U+24C6", "U+24C7", "U+24C8",
    "U+24C9", "U+24CA", "U+24CB", "U+24CC", "U+24CD", "U+24CE", "U+24CF",
    "U+2C00", "U+2C01", "U+2C02", "U+2C03", "U+2C04", "U+2C05", "U+2C06",
    "U+2C07", "U+2C08", "U+2C09", "U+2C0A", "U+2C0B", "U+2C0C", "U+2C0D",
    "U+2C0E", "U+2C0F", "U+2C10", "U+2C11", "U+2C12", "U+2C13", "U+2C14",
    "U+2C15", "U+2C16", "U+2C17", "U+2C18", "U+2C19", "U+2C1A", "U+2C1B",
    "U+2C1C", "U+2C1D", "U+2C1E", "U+2C1F", "U+2C20", "U+2C21", "U+2C22",
    "U+2C23", "U+2C24", "U+2C25", "U+2C26", "U+2C27", "U+2C28", "U+2C29",
    "U+2C2A", "U+2C2B", "U+2C2C", "U+2C2D", "U+2C2E", "U+2C2F", "U+2C60",
    "U+023A", "U+023E", "U+2C67", "U+2C69", "U+2C6B", "U+2C72", "U+2C75",
    "U+2C80", "U+2C82", "U+2C84", "U+2C86", "U+2C88", "U+2C8A", "U+2C8C",
    "U+2C8E", "U+2C90", "U+2C92", "U+2C94", "U+2C96", "U+2C98", "U+2C9A",
    "U+2C9C", "U+2C9E", "U+2CA0", "U+2CA2", "U+2CA4", "U+2CA6", "U+2CA8",
    "U+2CAA", "U+2CAC", "U+2CAE", "U+2CB0", "U+2CB2", "U+2CB4", "U+2CB6",
    "U+2CB8", "U+2CBA", "U+2CBC", "U+2CBE", "U+2CC0", "U+2CC2", "U+2CC4",
    "U+2CC6", "U+2CC8", "U+2CCA", "U+2CCC", "U+2CCE", "U+2CD0", "U+2CD2",
    "U+2CD4", "U+2CD6", "U+2CD8", "U+2CDA", "U+2CDC", "U+2CDE", "U+2CE0",
    "U+2CE2", "U+2CEB", "U+2CED", "U+2CF2", "U+10A0", "U+10A1", "U+10A2",
    "U+10A3", "U+10A4", "U+10A5", "U+10A6", "U+10A7", "U+10A8", "U+10A9",
    "U+10AA", "U+10AB", "U+10AC", "U+10AD", "U+10AE", "U+10AF", "U+10B0",
    "U+10B1", "U+10B2", "U+10B3", "U+10B4", "U+10B5", "U+10B6", "U+10B7",
    "U+10B8", "U+10B9", "U+10BA", "U+10BB", "U+10BC", "U+10BD", "U+10BE",
    "U+10BF", "U+10C0", "U+10C1", "U+10C2", "U+10C3", "U+10C4", "U+10C5",
    "U+10C7", "U+10CD", "U+A640", "U+A642", "U+A644", "U+A646", "U+A648",
    "U+A64A", "U+A64C", "U+A64E", "U+A650", "U+A652", "U+A654", "U+A656",
    "U+A658", "U+A65A", "U+A65C", "U+A65E", "U+A660", "U+A662", "U+A664",
    "U+A666", "U+A668", "U+A66A", "U+A66C", "U+A680", "U+A682", "U+A684",
    "U+A686", "U+A688", "U+A68A", "U+A68C", "U+A68E", "U+A690", "U+A692",
    "U+A694", "U+A696", "U+A698", "U+A69A", "U+A722", "U+A724", "U+A726",
    "U+A728", "U+A72A", "U+A72C", "U+A72E", "U+A732", "U+A734", "U+A736",
    "U+A738", "U+A73A", "U+A73C", "U+A73E", "U+A740", "U+A742", "U+A744",
    "U+A746", "U+A748", "U+A74A", "U+A74C", "U+A74E", "U+A750", "U+A752",
    "U+A754", "U+A756", "U+A758", "U+A75A", "U+A75C", "U+A75E", "U+A760",
    "U+A762", "U+A764", "U+A766", "U+A768", "U+A76A", "U+A76C", "U+A76E",
    "U+A779", "U+A77B", "U+A77E", "U+A780", "U+A782", "U+A784", "U+A786",
    "U+A78B", "U+A790", "U+A792", "U+A7C4", "U+A796", "U+A798", "U+A79A",
    "U+A79C", "U+A79E", "U+A7A0", "U+A7A2", "U+A7A4", "U+A7A6", "U+A7A8",
    "U+A7B4", "U+A7B6", "U+A7B8", "U+A7BA", "U+A7BC", "U+A7BE", "U+A7C0",
    "U+A7C2", "U+A7C7", "U+A7C9", "U+A7CC", "U+A7CE", "U+A7D0", "U+A7D2",
    "U+A7D4", "U+A7D6", "U+A7D8", "U+A7DA", "U+A7F5", "U+A7B3", "U+13A0",
    "U+13A1", "U+13A2", "U+13A3", "U+13A4", "U+13A5", "U+13A6", "U+13A7",
    "U+13A8", "U+13A9", "U+13AA", "U+13AB", "U+13AC", "U+13AD", "U+13AE",
    "U+13AF", "U+13B0", "U+13B1", "U+13B2", "U+13B3", "U+13B4", "U+13B5",
    "U+13B6", "U+13B7", "U+13B8", "U+13B9", "U+13BA", "U+13BB", "U+13BC",
    "U+13BD", "U+13BE", "U+13BF", "U+13C0", "U+13C1", "U+13C2", "U+13C3",
    "U+13C4", "U+13C5", "U+13C6", "U+13C7", "U+13C8", "U+13C9", "U+13CA",
    "U+13CB", "U+13CC", "U+13CD", "U+13CE", "U+13CF", "U+13D0", "U+13D1",
    "U+13D2", "U+13D3", "U+13D4", "U+13D5", "U+13D6", "U+13D7", "U+13D8",
    "U+13D9", "U+13DA", "U+13DB", "U+13DC", "U+13DD", "U+13DE", "U+13DF",
    "U+13E0", "U+13E1", "U+13E2", "U+13E3", "U+13E4", "U+13E5", "U+13E6",
    "U+13E7", "U+13E8", "U+13E9", "U+13EA", "U+13EB", "U+13EC", "U+13ED",
    "U+13EE", "U+13EF", "U+FF21", "U+FF22", "U+FF23", "U+FF24", "U+FF25",
    "U+FF26", "U+FF27", "U+FF28", "U+FF29", "U+FF2A", "U+FF2B", "U+FF2C",
    "U+FF2D", "U+FF2E", "U+FF2F", "U+FF30", "U+FF31", "U+FF32", "U+FF33",
    "U+FF34", "U+FF35", "U+FF36", "U+FF37", "U+FF38", "U+FF39", "U+FF3A" >>

\* the characters whose upper case is more than one character:
\* <<character, upper case>>
SPECIAL_UPPER ==
  <<
    << "ß", << "S", "S" >> >>,
    << "U+0149", << "U+02BC", "N" >> >>,
    << "U+01F0", << "J", "U+030C" >> >>,
    << "U+0390", << "U+0399", "U+0308", "U+0301" >> >>,
    << "U+03B0", << "U+03A5", "U+0308", "U+0301" >> >>,
    << "U+0587", << "U+0535", "U+0552" >> >>,
    << "U+1E96", << "H", "U+0331" >> >>,
    << "U+1E97", << "T", "U+0308" >> >>,
    << "U+1E98", << "W", "U+030A" >> >>,
    << "U+1E99", << "Y", "U+030A" >> >>,
    << "U+1E9A", << "A", "U+02BE" >> >>,
    << "U+1F50", << "U+03A5", "U+0313" >> >>,
    << "U+1F52", << "U+03A5", "U+0313", "U+0300" >> >>,
    << "U+1F54", << "U+03A5", "U+0313", "U+0301" >> >>,
    << "U+1F56", << "U+03A5", "U+0313", "U+0342" >> >>,
    << "U+1F80", << "U+1F08", "U+0399" >> >>,
    << "U+1F81", << "U+1F09", "U+0399" >> >>,
    << "U+1F82", << "U+1F0A", "U+0399" >> >>,
    << "U+1F83", << "U+1F0B", "U+0399" >> >>,
    << "U+1F84", << "U+1F0C", "U+0399" >> >>,
    << "U+1F85", << "U+1F0D", "U+0399" >> >>,
    << "U+1F86", << "U+1F0E", "U+0399" >> >>,
    << "U+1F87", << "U+1F0F", "U+0399" >> >>,
    << "U+1F88", << "U+1F08", "U+0399" >> >>,
    << "U+1F89", << "U+1F09", "U+0399" >> >>,
    << "U+1F8A", << "U+1F0A", "U+0399" >> >>,
    << "U+1F8B", << "U+1F0B", "U+0399" >> >>,
    << "U+1F8C", << "U+1F0C", "U+0399" >> >>,
    << "U+1F8D", << "U+1F0D", "U+0399" >> >>,
    << "U+1F8E", << "U+1F0E", "U+0399" >> >>,
    << "U+1F8F", << "U+1F0F", "U+0399" >> >>,
    << "U+1F90", << "U+1F28", "U+0399" >> >>,
    << "U+1F91", << "U+1F29", "U+0399" >> >>,
    << "U+1F92", << "U+1F2A", "U+0399" >> >>,
    << "U+1F93", << "U+1F2B", "U+0399" >> >>,
    << "U+1F94", << "U+1F2C", "U+0399" >> >>,
    << "U+1F95", << "U+1F2D", "U+0399" >> >>,
    << "U+1F96", << "U+1F2E", "U+0399" >> >>,
    << "U+1F97", << "U+1F2F", "U+0399" >> >>,
    << "U+1F98", << "U+1F28", "U+0399" >> >>,
    << "U+1F99", << "U+1F29", "U+0399" >> >>,
    << "U+1F9A", << "U+1F2A", "U+0399" >> >>,
    << "U+1F9B", << "U+1F2B", "U+0399" >> >>,
    << "U+1F9C", << "U+1F2C", "U+0399" >> >>,
    << "U+1F9D", << "U+1F2D", "U+0399" >> >>,
    << "U+1F9E", << "U+1F2E", "U+0399" >> >>,
    << "U+1F9F", << "U+1F2F", "U+0399" >> >>,
    << "U+1FA0", << "U+1F68", "U+0399" >> >>,
    << "U+1FA1", << "U+1F69", "U+0399" >> >>,
    << "U+1FA2", << "U+1F6A", "U+0399" >> >>,
    << "U+1FA3", << "U+1F6B", "U+0399" >> >>,
    << "U+1FA4", << "U+1F6C", "U+0399" >> >>,
    << "U+1FA5", << "U+1F6D", "U+0399" >> >>,
    << "U+1FA6", << "U+1F6E", "U+0399" >> >>,
    << "U+1FA7", << "U+1F6F", "U+0399" >> >>,
    << "U+1FA8", << "U+1F68", "U+0399" >> >>,
    << "U+1FA9", << "U+1F69", "U+0399" >> >>,
    << "U+1FAA", << "U+1F6A", "U+0399" >> >>,
    << "U+1FAB", << "U+1F6B", "U+0399" >> >>,
    << "U+1FAC", << "U+1F6C", "U+0399" >> >>,
    << "U+1FAD", << "U+1F6D", "U+0399" >> >>,
    << "U+1FAE", << "U+1F6E", "U+0399" >> >>,
    << "U+1FAF", << "U+1F6F", "U+0399" >> >>,
    << "U+1FB2", << "U+1FBA", "U+0399" >> >>,
    << "U+1FB3", << "U+0391", "U+0399" >> >>,
    << "U+1FB4", << "U+0386", "U+0399" >> >>,
    << "U+1FB6", << "U+0391", "U+0342" >> >>,
    << "U+1FB7", << "U+0391", "U+0342", "U+0399" >> >>,
    << "U+1FBC", << "U+0391", "U+0399" >> >>,
    << "U+1FC2", << "U+1FCA", "U+0399" >> >>,
    << "U+1FC3", << "U+0397", "U+0399" >> >>,
    << "U+1FC4", << "U+0389", "U+0399" >> >>,
    << "U+1FC6", << "U+0397", "U+0342" >> >>,
    << "U+1FC7", << "U+0397", "U+0342", "U+0399" >> >>,
    << "U+1FCC", << "U+0397", "U+0399" >> >>,
    << "U+1FD2", << "U+0399", "U+0308", "U+0300" >> >>,
    << "U+1FD3", << "U+0399", "U+0308", "U+0301" >> >>,
    << "U+1FD6", << "U+0399", "U+0342" >> >>,
    << "U+1FD7", << "U+0399", "U+0308", "U+0342" >> >>,
    << "U+1FE2", << "U+03A5", "U+0308", "U+0300" >> >>,
    << "U+1FE3", << "U+03A5", "U+0308", "U+0301" >> >>,
    << "U+1FE4", << "U+03A1", "U+0313" >> >>,
    << "U+1FE6", << "U+03A5", "U+0342" >> >>,
    << "U+1FE7", << "U+03A5", "U+0308", "U+0342" >> >>,
    << "U+1FF2", << "U+1FFA", "U+0399" >> >>,
    << "U+1FF3", << "U+03A9", "U+0399" >> >>,
    << "U+1FF4", << "U+038F", "U+0399" >> >>,
    << "U+1FF6", << "U+03A9", "U+0342" >> >>,
    << "U+1FF7", << "U+03A9", "U+0342", "U+0399" >> >>,
    << "U+1FFC", << "U+03A9", "U+0399" >> >>,
    << "U+FB00", << "F", "F" >> >>,
    << "U+FB01", << "F", "I" >> >>,
    << "U+FB02", << "F", "L" >> >>,
    << "U+FB03", << "F", "F", "I" >> >>,
    << "U+FB04", << "F", "F", "L" >> >>,
    << "U+FB05", << "S", "T" >> >>,
    << "U+FB06", << "S", "T" >> >>,
    << "U+FB13", << "U+0544", "U+0546" >> >>,
    << "U+FB14", << "U+0544", "U+0535" >> >>,
    << "U+FB15", << "U+0544", "U+053B" >> >>,
    << "U+FB16", << "U+054E", "U+0546" >> >>,
    << "U+FB17", << "U+0544", "U+053D" >> >> >>

\* the letters beyond U+FFFF (two code units, a surrogate pair) that have an
\* upper case: <<high, low, high of the upper case, low of the upper case>>
SURROGATE_UPPER ==
  <<
    <<"U+D801", "U+DC28", "U+D801", "U+DC00">>,
    <<"U+D801", "U+DC29", "U+D801", "U+DC01">>,
    <<"U+D801", "U+DC2A", "U+D801", "U+DC02">>,
    <<"U+D801", "U+DC2B", "U+D801", "U+DC03">>,
    <<"U+D801", "U+DC2C", "U+D801", "U+DC04">>,
    <<"U+D801", "U+DC2D", "U+D801", "U+DC05">>,
    <<"U+D801", "U+DC2E", "U+D801", "U+DC06">>,
    <<"U+D801", "U+DC2F", "U+D801", "U+DC07">>,
    <<"U+D801", "U+DC30", "U+D801", "U+DC08">>,
    <<"U+D801", "U+DC31", "U+D801", "U+DC09">>,
    <<"U+D801", "U+DC32", "U+D801", "U+DC0A">>,
    <<"U+D801", "U+DC33", "U+D801", "U+DC0B">>,
    <<"U+D801", "U+DC34", "U+D801", "U+DC0C">>,
    <<"U+D801", "U+DC35", "U+D801", "U+DC0D">>,
    <<"U+D801", "U+DC36", "U+D801", "U+DC0E">>,
    <<"U+D801", "U+DC37", "U+D801", "U+DC0F">>,
    <<"U+D801", "U+DC38", "U+D801", "U+DC10">>,
    <<"U+D801", "U+DC39", "U+D801", "U+DC11">>,
    <<"U+D801", "U+DC3A", "U+D801", "U+DC12">>,
    <<"U+D801", "U+DC3B", "U+D801", "U+DC13">>,
    <<"U+D801", "U+DC3C", "U+D801", "U+DC14">>,
    <<"U+D801", "U+DC3D", "U+D801", "U+DC15">>,
    <<"U+D801", "U+DC3E", "U+D801", "U+DC16">>,
    <<"U+D801", "U+DC3F", "U+D801", "U+DC17">>,
    <<"U+D801", "U+DC40", "U+D801", "U+DC18">>,
    <<"U+D801", "U+DC41", "U+D801", "U+DC19">>,
    <<"U+D801", "U+DC42", "U+D801", "U+DC1A">>,
    <<"U+D801", "U+DC43", "U+D801", "U+DC1B">>,
    <<"U+D801", "U+DC44", "U+D801", "U+DC1C">>,
    <<"U+D801", "U+DC45", "U+D801", "U+DC1D">>,
    <<"U+D801", "U+DC46", "U+D801", "U+DC1E">>,
    <<"U+D801", "U+DC47", "U+D801", "U+DC1F">>,
    <<"U+D801", "U+DC48", "U+D801", "U+DC20">>,
    <<"U+D801", "U+DC49", "U+D801", "U+DC21">>,
    <<"U+D801", "U+DC4A", "U+D801", "U+DC22">>,
    <<"U+D801", "U+DC4B", "U+D801", "U+DC23">>,
    <<"U+D801", "U+DC4C", "U+D801", "U+DC24">>,
    <<"U+D801", "U+DC4D", "U+D801", "U+DC25">>,
    <<"U+D801", "U+DC4E", "U+D801", "U+DC26">>,
    <<"U+D801", "U+DC4F", "U+D801", "U+DC27">>,
    <<"U+D801", "U+DCD8", "U+D801", "U+DCB0">>,
    <<"U+D801", "U+DCD9", "U+D801", "U+DCB1">>,
    <<"U+D801", "U+DCDA", "U+D801", "U+DCB2">>,
    <<"U+D801", "U+DCDB", "U+D801", "U+DCB3">>,
    <<"U+D801", "U+DCDC", "U+D801", "U+DCB4">>,
    <<"U+D801", "U+DCDD", "U+D801", "U+DCB5">>,
    <<"U+D801", "U+DCDE", "U+D801", "U+DCB6">>,
    <<"U+D801", "U+DCDF", "U+D801", "U+DCB7">>,
    <<"U+D801", "U+DCE0", "U+D801", "U+DCB8">>,
    <<"U+D801", "U+DCE1", "U+D801", "U+DCB9">>,
    <<"U+D801", "U+DCE2", "U+D801", "U+DCBA">>,
    <<"U+D801", "U+DCE3", "U+D801", "U+DCBB">>,
    <<"U+D801", "U+DCE4", "U+D801", "U+DCBC">>,
    <<"U+D801", "U+DCE5", "U+D801", "U+DCBD">>,
    <<"U+D801", "U+DCE6", "U+D801", "U+DCBE">>,
    <<"U+D801", "U+DCE7", "U+D801", "U+DCBF">>,
    <<"U+D801", "U+DCE8", "U+D801", "U+DCC0">>,
    <<"U+D801", "U+DCE9", "U+D801", "U+DCC1">>,
    <<"U+D801", "U+DCEA", "U+D801", "U+DCC2">>,
    <<"U+D801", "U+DCEB", "U+D801", "U+DCC3">>,
    <<"U+D801", "U+DCEC", "U+D801", "U+DCC4">>,
    <<"U+D801", "U+DCED", "U+D801", "U+DCC5">>,
    <<"U+D801", "U+DCEE", "U+D801", "U+DCC6">>,
    <<"U+D801", "U+DCEF", "U+D801", "U+DCC7">>,
    <<"U+D801", "U+DCF0", "U+D801", "U+DCC8">>,
    <<"U+D801", "U+DCF1", "U+D801", "U+DCC9">>,
    <<"U+D801", "U+DCF2", "U+D801", "U+DCCA">>,
    <<"U+D801", "U+DCF3", "U+D801", "U+DCCB">>,
    <<"U+D801", "U+DCF4", "U+D801", "U+DCCC">>,
    <<"U+D801", "U+DCF5", "U+D801", "U+DCCD">>,
    <<"U+D801", "U+DCF6", "U+D801", "U+DCCE">>,
    <<"U+D801", "U+DCF7", "U+D801", "U+DCCF">>,
    <<"U+D801", "U+DCF8", "U+D801", "U+DCD0">>,
    <<"U+D801", "U+DCF9", "U+D801", "U+DCD1">>,
    <<"U+D801", "U+DCFA", "U+D801", "U+DCD2">>,
    <<"U+D801", "U+DCFB", "U+D801", "U+DCD3">>,
    <<"U+D801", "U+DD97", "U+D801", "U+DD70">>,
    <<"U+D801", "U+DD98", "U+D801", "U+DD71">>,
    <<"U+D801", "U+DD99", "U+D801", "U+DD72">>,
    <<"U+D801", "U+DD9A", "U+D801", "U+DD73">>,
    <<"U+D801", "U+DD9B", "U+D801", "U+DD74">>,
    <<"U+D801", "U+DD9C", "U+D801", "U+DD75">>,
    <<"U+D801", "U+DD9D", "U+D801", "U+DD76">>,
    <<"U+D801", "U+DD9E", "U+D801", "U+DD77">>,
    <<"U+D801", "U+DD9F", "U+D801", "U+DD78">>,
    <<"U+D801", "U+DDA0", "U+D801", "U+DD79">>,
    <<"U+D801", "U+DDA1", "U+D801", "U+DD7A">>,
    <<"U+D801", "U+DDA3", "U+D801", "U+DD7C">>,
    <<"U+D801", "U+DDA4", "U+D801", "U+DD7D">>,
    <<"U+D801", "U+DDA5", "U+D801", "U+DD7E">>,
    <<"U+D801", "U+DDA6", "U+D801", "U+DD7F">>,
    <<"U+D801", "U+DDA7", "U+D801", "U+DD80">>,
    <<"U+D801", "U+DDA8", "U+D801", "U+DD81">>,
    <<"U+D801", "U+DDA9", "U+D801", "U+DD82">>,
    <<"U+D801", "U+DDAA", "U+D801", "U+DD83">>,
    <<"U+D801", "U+DDAB", "U+D801", "U+DD84">>,
    <<"U+D801", "U+DDAC", "U+D801", "U+DD85">>,
    <<"U+D801", "U+DDAD", "U+D801", "U+DD86">>,
    <<"U+D801", "U+DDAE", "U+D801", "U+DD87">>,
    <<"U+D801", "U+DDAF", "U+D801", "U+DD88">>,
    <<"U+D801", "U+DDB0", "U+D801", "U+DD89">>,
    <<"U+D801", "U+DDB1", "U+D801", "U+DD8A">>,
    <<"U+D801", "U+DDB3", "U+D801", "U+DD8C">>,
    <<"U+D801", "U+DDB4", "U+D801", "U+DD8D">>,
    <<"U+D801", "U+DDB5", "U+D801", "U+DD8E">>,
    <<"U+D801", "U+DDB6", "U+D801", "U+DD8F">>,
    <<"U+D801", "U+DDB7", "U+D801", "U+DD90">>,
    <<"U+D801", "U+DDB8", "U+D801", "U+DD91">>,
    <<"U+D801", "U+DDB9", "U+D801", "U+DD92">>,
    <<"U+D801", "U+DDBB", "U+D801", "U+DD94">>,
    <<"U+D801", "U+DDBC", "U+D801", "U+DD95">>,
    <<"U+D803", "U+DCC0", "U+D803", "U+DC80">>,
    <<"U+D803", "U+DCC1", "U+D803", "U+DC81">>,
    <<"U+D803", "U+DCC2", "U+D803", "U+DC82">>,
    <<"U+D803", "U+DCC3", "U+D803", "U+DC83">>,
    <<"U+D803", "U+DCC4", "U+D803", "U+DC84">>,
    <<"U+D803", "U+DCC5", "U+D803", "U+DC85">>,
    <<"U+D803", "U+DCC6", "U+D803", "U+DC86">>,
    <<"U+D803", "U+DCC7", "U+D803", "U+DC87">>,
    <<"U+D803", "U+DCC8", "U+D803", "U+DC88">>,
    <<"U+D803", "U+DCC9", "U+D803", "U+DC89">>,
    <<"U+D803", "U+DCCA", "U+D803", "U+DC8A">>,
    <<"U+D803", "U+DCCB", "U+D803", "U+DC8B">>,
    <<"U+D803", "U+DCCC", "U+D803", "U+DC8C">>,
    <<"U+D803", "U+DCCD", "U+D803", "U+DC8D">>,
    <<"U+D803", "U+DCCE", "U+D803", "U+DC8E">>,
    <<"U+D803", "U+DCCF", "U+D803", "U+DC8F">>,
    <<"U+D803", "U+DCD0", "U+D803", "U+DC90">>,
    <<"U+D803", "U+DCD1", "U+D803", "U+DC91">>,
    <<"U+D803", "U+DCD2", "U+D803", "U+DC92">>,
    <<"U+D803", "U+DCD3", "U+D803", "U+DC93">>,
    <<"U+D803", "U+DCD4", "U+D803", "U+DC94">>,
    <<"U+D803", "U+DCD5", "U+D803", "U+DC95">>,
    <<"U+D803", "U+DCD6", "U+D803", "U+DC96">>,
    <<"U+D803", "U+DCD7", "U+D803", "U+DC97">>,
    <<"U+D803", "U+DCD8", "U+D803", "U+DC98">>,
    <<"U+D803", "U+DCD9", "U+D803", "U+DC99">>,
    <<"U+D803", "U+DCDA", "U+D803", "U+DC9A">>,
    <<"U+D803", "U+DCDB", "U+D803", "U+DC9B">>,
    <<"U+D803", "U+DCDC", "U+D803", "U+DC9C">>,
    <<"U+D803", "U+DCDD", "U+D803", "U+DC9D">>,
    <<"U+D803", "U+DCDE", "U+D803", "U+DC9E">>,
    <<"U+D803", "U+DCDF", "U+D803", "U+DC9F">>,
    <<"U+D803", "U+DCE0", "U+D803", "U+DCA0">>,
    <<"U+D803", "U+DCE1", "U+D803", "U+DCA1">>,
    <<"U+D803", "U+DCE2", "U+D803", "U+DCA2">>,
    <<"U+D803", "U+DCE3", "U+D803", "U+DCA3">>,
    <<"U+D803", "U+DCE4", "U+D803", "U+DCA4">>,
    <<"U+D803", "U+DCE5", "U+D803", "U+DCA5">>,
    <<"U+D803", "U+DCE6", "U+D803", "U+DCA6">>,
    <<"U+D803", "U+DCE7", "U+D803", "U+DCA7">>,
    <<"U+D803", "U+DCE8", "U+D803", "U+DCA8">>,
    <<"U+D803", "U+DCE9", "U+D803", "U+DCA9">>,
    <<"U+D803", "U+DCEA", "U+D803", "U+DCAA">>,
    <<"U+D803", "U+DCEB", "U+D803", "U+DCAB">>,
    <<"U+D803", "U+DCEC", "U+D803", "U+DCAC">>,
    <<"U+D803", "U+DCED", "U+D803", "U+DCAD">>,
    <<"U+D803", "U+DCEE", "U+D803", "U+DCAE">>,
    <<"U+D803", "U+DCEF", "U+D803", "U+DCAF">>,
    <<"U+D803", "U+DCF0", "U+D803", "U+DCB0">>,
    <<"U+D803", "U+DCF1", "U+D803", "U+DCB1">>,
    <<"U+D803", "U+DCF2", "U+D803", "U+DCB2">>,
    <<"U+D803", "U+DD70", "U+D803", "U+DD50">>,
    <<"U+D803", "U+DD71", "U+D803", "U+DD51">>,
    <<"U+D803", "U+DD72", "U+D803", "U+DD52">>,
    <<"U+D803", "U+DD73", "U+D803", "U+DD53">>,
    <<"U+D803", "U+DD74", "U+D803", "U+DD54">>,
    <<"U+D803", "U+DD75", "U+D803", "U+DD55">>,
    <<"U+D803", "U+DD76", "U+D803", "U+DD56">>,
    <<"U+D803", "U+DD77", "U+D803", "U+DD57">>,
    <<"U+D803", "U+DD78", "U+D803", "U+DD58">>,
    <<"U+D803", "U+DD79", "U+D803", "U+DD59">>,
    <<"U+D803", "U+DD7A", "U+D803", "U+DD5A">>,
    <<"U+D803", "U+DD7B", "U+D803", "U+DD5B">>,
    <<"U+D803", "U+DD7C", "U+D803", "U+DD5C">>,
    <<"U+D803", "U+DD7D", "U+D803", "U+DD5D">>,
    <<"U+D803", "U+DD7E", "U+D803", "U+DD5E">>,
    <<"U+D803", "U+DD7F", "U+D803", "U+DD5F">>,
    <<"U+D803", "U+DD80", "U+D803", "U+DD60">>,
    <<"U+D803", "U+DD81", "U+D803", "U+DD61">>,
    <<"U+D803", "U+DD82", "U+D803", "U+DD62">>,
    <<"U+D803", "U+DD83", "U+D803", "U+DD63">>,
    <<"U+D803", "U+DD84", "U+D803", "U+DD64">>,
    <<"U+D803", "U+DD85", "U+D803", "U+DD65">>,
    <<"U+D806", "U+DCC0", "U+D806", "U+DCA0">>,
    <<"U+D806", "U+DCC1", "U+D806", "U+DCA1">>,
    <<"U+D806", "U+DCC2", "U+D806", "U+DCA2">>,
    <<"U+D806", "U+DCC3", "U+D806", "U+DCA3">>,
    <<"U+D806", "U+DCC4", "U+D806", "U+DCA4">>,
    <<"U+D806", "U+DCC5", "U+D806", "U+DCA5">>,
    <<"U+D806", "U+DCC6", "U+D806", "U+DCA6">>,
    <<"U+D806", "U+DCC7", "U+D806", "U+DCA7">>,
    <<"U+D806", "U+DCC8", "U+D806", "U+DCA8">>,
    <<"U+D806", "U+DCC9", "U+D806", "U+DCA9">>,
    <<"U+D806", "U+DCCA", "U+D806", "U+DCAA">>,
    <<"U+D806", "U+DCCB", "U+D806", "U+DCAB">>,
    <<"U+D806", "U+DCCC", "U+D806", "U+DCAC">>,
    <<"U+D806", "U+DCCD", "U+D806", "U+DCAD">>,
    <<"U+D806", "U+DCCE", "U+D806", "U+DCAE">>,
    <<"U+D806", "U+DCCF", "U+D806", "U+DCAF">>,
    <<"U+D806", "U+DCD0", "U+D806", "U+DCB0">>,
    <<"U+D806", "U+DCD1", "U+D806", "U+DCB1">>,
    <<"U+D806", "U+DCD2", "U+D806", "U+DCB2">>,
    <<"U+D806", "U+DCD3", "U+D806", "U+DCB3">>,
    <<"U+D806", "U+DCD4", "U+D806", "U+DCB4">>,
    <<"U+D806", "U+DCD5", "U+D806", "U+DCB5">>,
    <<"U+D806", "U+DCD6", "U+D806", "U+DCB6">>,
    <<"U+D806", "U+DCD7", "U+D806", "U+DCB7">>,
    <<"U+D806", "U+DCD8", "U+D806", "U+DCB8">>,
    <<"U+D806", "U+DCD9", "U+D806", "U+DCB9">>,
    <<"U+D806", "U+DCDA", "U+D806", "U+DCBA">>,
    <<"U+D806", "U+DCDB", "U+D806", "U+DCBB">>,
    <<"U+D806", "U+DCDC", "U+D806", "U+DCBC">>,
    <<"U+D806", "U+DCDD", "U+D806", "U+DCBD">>,
    <<"U+D806", "U+DCDE", "U+D806", "U+DCBE">>,
    <<"U+D806", "U+DCDF", "U+D806", "U+DCBF">>,
    <<"U+D81B", "U+DE60", "U+D81B", "U+DE40">>,
    <<"U+D81B", "U+DE61", "U+D81B", "U+DE41">>,
    <<"U+D81B", "U+DE62", "U+D81B", "U+DE42">>,
    <<"U+D81B", "U+DE63", "U+D81B", "U+DE43">>,
    <<"U+D81B", "U+DE64", "U+D81B", "U+DE44">>,
    <<"U+D81B", "U+DE65", "U+D81B", "U+DE45">>,
    <<"U+D81B", "U+DE66", "U+D81B", "U+DE46">>,
    <<"U+D81B", "U+DE67", "U+D81B", "U+DE47">>,
    <<"U+D81B", "U+DE68", "U+D81B", "U+DE48">>,
    <<"U+D81B", "U+DE69", "U+D81B", "U+DE49">>,
    <<"U+D81B", "U+DE6A", "U+D81B", "U+DE4A">>,
    <<"U+D81B", "U+DE6B", "U+D81B", "U+DE4B">>,
    <<"U+D81B", "U+DE6C", "U+D81B", "U+DE4C">>,
    <<"U+D81B", "U+DE6D", "U+D81B", "U+DE4D">>,
    <<"U+D81B", "U+DE6E", "U+D81B", "U+DE4E">>,
    <<"U+D81B", "U+DE6F", "U+D81B", "U+DE4F">>,
    <<"U+D81B", "U+DE70", "U+D81B", "U+DE50">>,
    <<"U+D81B", "U+DE71", "U+D81B", "U+DE51">>,
    <<"U+D81B", "U+DE72", "U+D81B", "U+DE52">>,
    <<"U+D81B", "U+DE73", "U+D81B", "U+DE53">>,
    <<"U+D81B", "U+DE74", "U+D81B", "U+DE54">>,
    <<"U+D81B", "U+DE75", "U+D81B", "U+DE55">>,
    <<"U+D81B", "U+DE76", "U+D81B", "U+DE56">>,
    <<"U+D81B", "U+DE77", "U+D81B", "U+DE57">>,
    <<"U+D81B", "U+DE78", "U+D81B", "U+DE58">>,
    <<"U+D81B", "U+DE79", "U+D81B", "U+DE59">>,
    <<"U+D81B", "U+DE7A", "U+D81B", "U+DE5A">>,
    <<"U+D81B", "U+DE7B", "U+D81B", "U+DE5B">>,
    <<"U+D81B", "U+DE7C", "U+D81B", "U+DE5C">>,
    <<"U+D81B", "U+DE7D", "U+D81B", "U+DE5D">>,
    <<"U+D81B", "U+DE7E", "U+D81B", "U+DE5E">>,
    <<"U+D81B", "U+DE7F", "U+D81B", "U+DE5F">>,
    <<"U+D81B", "U+DEBB", "U+D81B", "U+DEA0">>,
    <<"U+D81B", "U+DEBC", "U+D81B", "U+DEA1">>,
    <<"U+D81B", "U+DEBD", "U+D81B", "U+DEA2">>,
    <<"U+D81B", "U+DEBE", "U+D81B", "U+DEA3">>,
    <<"U+D81B", "U+DEBF", "U+D81B", "U+DEA4">>,
    <<"U+D81B", "U+DEC0", "U+D81B", "U+DEA5">>,
    <<"U+D81B", "U+DEC1", "U+D81B", "U+DEA6">>,
    <<"U+D81B", "U+DEC2", "U+D81B", "U+DEA7">>,
    <<"U+D81B", "U+DEC3", "U+D81B", "U+DEA8">>,
    <<"U+D81B", "U+DEC4", "U+D81B", "U+DEA9">>,
    <<"U+D81B", "U+DEC5", "U+D81B", "U+DEAA">>,
    <<"U+D81B", "U+DEC6", "U+D81B", "U+DEAB">>,
    <<"U+D81B", "U+DEC7", "U+D81B", "U+DEAC">>,
    <<"U+D81B", "U+DEC8", "U+D81B", "U+DEAD">>,
    <<"U+D81B", "U+DEC9", "U+D81B", "U+DEAE">>,
    <<"U+D81B", "U+DECA", "U+D81B", "U+DEAF">>,
    <<"U+D81B", "U+DECB", "U+D81B", "U+DEB0">>,
    <<"U+D81B", "U+DECC", "U+D81B", "U+DEB1">>,
    <<"U+D81B", "U+DECD", "U+D81B", "U+DEB2">>,
    <<"U+D81B", "U+DECE", "U+D81B", "U+DEB3">>,
    <<"U+D81B", "U+DECF", "U+D81B", "U+DEB4">>,
    <<"U+D81B", "U+DED0", "U+D81B", "U+DEB5">>,
    <<"U+D81B", "U+DED1", "U+D81B", "U+DEB6">>,
    <<"U+D81B", "U+DED2", "U+D81B", "U+DEB7">>,
    <<"U+D81B", "U+DED3", "U+D81B", "U+DEB8">>,
    <<"U+D83A", "U+DD22", "U+D83A", "U+DD00">>,
    <<"U+D83A", "U+DD23", "U+D83A", "U+DD01">>,
    <<"U+D83A", "U+DD24", "U+D83A", "U+DD02">>,
    <<"U+D83A", "U+DD25", "U+D83A", "U+DD03">>,
    <<"U+D83A", "U+DD26", "U+D83A", "U+DD04">>,
    <<"U+D83A", "U+DD27", "U+D83A", "U+DD05">>,
    <<"U+D83A", "U+DD28", "U+D83A", "U+DD06">>,
    <<"U+D83A", "U+DD29", "U+D83A", "U+DD07">>,
    <<"U+D83A", "U+DD2A", "U+D83A", "U+DD08">>,
    <<"U+D83A", "U+DD2B", "U+D83A", "U+DD09">>,
    <<"U+D83A", "U+DD2C", "U+D83A", "U+DD0A">>,
    <<"U+D83A", "U+DD2D", "U+D83A", "U+DD0B">>,
    <<"U+D83A", "U+DD2E", "U+D83A", "U+DD0C">>,
    <<"U+D83A", "U+DD2F", "U+D83A", "U+DD0D">>,
    <<"U+D83A", "U+DD30", "U+D83A", "U+DD0E">>,
    <<"U+D83A", "U+DD31", "U+D83A", "U+DD0F">>,
    <<"U+D83A", "U+DD32", "U+D83A", "U+DD10">>,
    <<"U+D83A", "U+DD33", "U+D83A", "U+DD11">>,
    <<"U+D83A", "U+DD34", "U+D83A", "U+DD12">>,
    <<"U+D83A", "U+DD35", "U+D83A", "U+DD13">>,
    <<"U+D83A", "U+DD36", "U+D83A", "U+DD14">>,
    <<"U+D83A", "U+DD37", "U+D83A", "U+DD15">>,
    <<"U+D83A", "U+DD38", "U+D83A", "U+DD16">>,
    <<"U+D83A", "U+DD39", "U+D83A", "U+DD17">>,
    <<"U+D83A", "U+DD3A", "U+D83A", "U+DD18">>,
    <<"U+D83A", "U+DD3B", "U+D83A", "U+DD19">>,
    <<"U+D83A", "U+DD3C", "U+D83A", "U+DD1A">>,
    <<"U+D83A", "U+DD3D", "U+D83A", "U+DD1B">>,
    <<"U+D83A", "U+DD3E", "U+D83A", "U+DD1C">>,
    <<"U+D83A", "U+DD3F", "U+D83A", "U+DD1D">>,
    <<"U+D83A", "U+DD40", "U+D83A", "U+DD1E">>,
    <<"U+D83A", "U+DD41", "U+D83A", "U+DD1F">>,
    <<"U+D83A", "U+DD42", "U+D83A", "U+DD20">>,
    <<"U+D83A", "U+DD43", "U+D83A", "U+DD21">> >>

\* the characters of a table of characters
Characters(table) == {table[i] : i \in 1..Len(table)}

LOWER_SET == Characters(LOWER)

OTHER_LOWER_SET == Characters(OTHER_LOWER)

SPECIAL_SET == {SPECIAL_UPPER[i][1] : i \in 1..Len(SPECIAL_UPPER)}

SURROGATE_SET ==
  {<<SURROGATE_UPPER[i][1], SURROGATE_UPPER[i][2]>> :
     i \in 1..Len(SURROGATE_UPPER)}

\* String.prototype.toUpperCase on one code unit: the string it becomes (a
\* surrogate on its own stays as it is)
UpperChar(c) ==
  IF c \in LOWER_SET
  THEN <<UPPER[CHOOSE i \in 1..Len(LOWER) : LOWER[i] = c]>>
  ELSE IF c \in OTHER_LOWER_SET
  THEN <<OTHER_UPPER[CHOOSE i \in 1..Len(OTHER_LOWER) : OTHER_LOWER[i] = c]>>
  ELSE IF c \in SPECIAL_SET
  THEN SPECIAL_UPPER[CHOOSE i \in 1..Len(SPECIAL_UPPER) :
                       SPECIAL_UPPER[i][1] = c][2]
  ELSE <<c>>

\* the upper case of the letter the surrogate pair hi, lo encodes
UpperPair(hi, lo) ==
  LET t == SURROGATE_UPPER[CHOOSE i \in 1..Len(SURROGATE_UPPER) :
                             /\ SURROGATE_UPPER[i][1] = hi
                             /\ SURROGATE_UPPER[i][2] = lo]
  IN <<t[3], t[4]>>

\* String.prototype.toUpperCase: by code point, so a surrogate pair is
\* mapped as one letter
RECURSIVE toUpperCase(_)
toUpperCase(s) ==
  IF s = <<>> THEN <<>>
  ELSE IF Len(s) >= 2 /\ <<s[1], s[2]>> \in SURROGATE_SET
  THEN UpperPair(s[1], s[2]) \o toUpperCase(SubSeq(s, 3, Len(s)))
  ELSE UpperChar(Head(s)) \o toUpperCase(Tail(s))

\* the characters the regular-expression class \s and trim() treat as
\* blank: space, tab, line feed, vertical tab (U+000B), form feed, carriage
\* return, no-break space (U+00A0), the Unicode space separators, the line
\* and paragraph separators and the byte-order mark
WHITE_SPACE ==
  {" ", "\t", "\n", "", "\f", "\r", " ", "U+1680", "U+2000", "U+2001",
   "U+2002", "U+2003", "U+2004", "U+2005", "U+2006", "U+2007", "U+2008",
   "U+2009", "U+200A", "U+2028", "U+2029", "U+202F", "U+205F", "U+3000",
   "U+FEFF"}

IsWhiteSpace(c) == c \in WHITE_SPACE

RECURSIVE TrimStart(_)
TrimStart(s) ==
  IF s # <<>> /\ IsWhiteSpace(Head(s)) THEN TrimStart(Tail(s)) ELSE s

RECURSIVE TrimEnd(_)
TrimEnd(s) ==
  IF s # <<>> /\ IsWhiteSpace(s[Len(s)])
  THEN TrimEnd(SubSeq(s, 1, Len(s) - 1))
  ELSE s

\* String.prototype.trim
trim(s) == TrimEnd(TrimStart(s))

\* String.prototype.split(sep) for a one-character separator: always at
\* least one piece, "".split(sep) = [""]
RECURSIVE SplitFrom(_, _, _)
SplitFrom(s, sep, cur) ==
  IF s = <<>> THEN <<cur>>
  ELSE IF Head(s) = sep THEN <<cur>> \o SplitFrom(Tail(s), sep, <<>>)
  ELSE SplitFrom(Tail(s), sep, Append(cur, Head(s)))

split(s, sep) == SplitFrom(s, sep, <<>>)

\* Array.prototype.join(sep), sep a string
RECURSIVE join(_, _)
join(parts, sep) ==
  IF parts = <<>> THEN <<>>
  ELSE IF Len(parts) = 1 THEN parts[1]
  ELSE parts[1] \o sep \o join(Tail(parts), sep)

\* String.prototype.replace(/\s\/\s/g, ' / '): left to right, every
\* non-overlapping blank-slash-blank triple becomes " / "
RECURSIVE replaceWordSeparators(_)
replaceWordSeparators(s) ==
  IF s = <<>> THEN <<>>
  ELSE IF Len(s) >= 3 /\ IsWhiteSpace(s[1]) /\ s[2] = "/" /\ IsWhiteSpace(s[3])
  THEN <<" ", "/", " ">> \o replaceWordSeparators(SubSeq(s, 4, Len(s)))
  ELSE <<Head(s)>> \o replaceWordSeparators(Tail(s))

(* ------------------------------ code table ---------------------------- *)

\* MORSE_MAP as its entries <<key, value>>, in the order the object literal
\* lists them; keys and values are strings
MORSE_MAP ==
  << << <<"A">>, <<".", "-">>>>,
       << <<"B">>, <<"-", ".", ".", ".">>>>,
       << <<"C">>, <<"-", ".", "-", ".">>>>,
       << <<"D">>, <<"-", ".", ".">>>>,
       << <<"E">>, <<".">>>>,
       << <<"F">>, <<".", ".", "-", ".">>>>,
       << <<"G">>, <<"-", "-", ".">>>>,
       << <<"H">>, <<".", ".", ".", ".">>>>,
       << <<"I">>, <<".", ".">>>>,
       << <<"J">>, <<".", "-", "-", "-">>>>,
       << <<"K">>, <<"-", ".", "-">>>>,
       << <<"L">>, <<".", "-", ".", ".">>>>,
       << <<"M">>, <<"-", "-">>>>,
       << <<"N">>, <<"-", ".">>>>,
       << <<"O">>, <<"-", "-", "-">>>>,
       << <<"P">>, <<".", "-", "-", ".">>>>,
       << <<"Q">>, <<"-", "-", ".", "-">>>>,
       << <<"R">>, <<".", "-", ".">>>>,
       << <<"S">>, <<".", ".", ".">>>>,
       << <<"T">>, <<"-">>>>,
       << <<"U">>, <<".", ".", "-">>>>,
       << <<"V">>, <<".", ".", ".", "-">>>>,
       << <<"W">>, <<".", "-", "-">>>>,
       << <<"X">>, <<"-", ".", ".", "-">>>>,
       << <<"Y">>, <<"-", ".", "-", "-">>>>,
       << <<"Z">>, <<"-", "-", ".", ".">>>>,
       << <<"1">>, <<".", "-", "-", "-", "-">>>>,
       << <<"2">>, <<".", ".", "-", "-", "-">>>>,
       << <<"3">>, <<".", ".", ".", "-", "-">>>>,
       << <<"4">>, <<".", ".", ".", ".", "-">>>>,
       << <<"5">>, <<".", ".", ".", ".", ".">>>>,
       << <<"6">>, <<"-", ".", ".", ".", ".">>>>,
       << <<"7">>, <<"-", "-", ".", ".", ".">>>>,
       << <<"8">>, <<"-", "-", "-", ".", ".">>>>,
       << <<"9">>, <<"-", "-", "-", "-", ".">>>>,
       << <<"0">>, <<"-", "-", "-", "-", "-">>>>,
       << <<".">>, <<".", "-", ".", "-", ".", "-">>>>,
       << <<",">>, <<"-", "-", ".", ".", "-", "-">>>>,
       << <<"?">>, <<".", ".", "-", "-", ".", ".">>>>,
       << <<"'">>, <<".", "-", "-", "-", "-", ".">>>>,
       << <<"!">>, <<"-", ".", "-", ".", "-", "-">>>>,
       << <<"/">>, <<"-", ".", ".", "-", ".">>>>,
       << <<"(">>, <<"-", ".", "-", "-", ".">>>>,
       << <<")">>, <<"-", ".", "-", "-", ".", "-">>>>,
       << <<"&">>, <<".", "-", ".", ".", ".">>>>,
       << <<":">>, <<"-", "-", "-", ".", ".", ".">>>>,
       << <<";">>, <<"-", ".", "-", ".", "-", ".">>>>,
       << <<"=">>, <<"-", ".", ".", ".", "-">>>>,
       << <<"+">>, <<".", "-", ".", "-", ".">>>>,
       << <<"-">>, <<"-", ".", ".", ".", ".", "-">>>>,
       << <<"_">>, <<".", ".", "-", "-", ".", "-">>>>,
       << <<"\"">>, <<".", "-", ".", ".", "-", ".">>>>,
       << <<"$">>, <<".", ".", ".", "-", ".", ".", "-">>>>,
       << <<"@">>, <<".", "-", "-", ".", "-", ".">>>> >>

\* REVERSE_MORSE_MAP: the entries of MORSE_MAP reduced into code -> char
REVERSE_MORSE_MAP ==
  [i \in 1..Len(MORSE_MAP) |-> <<MORSE_MAP[i][2], MORSE_MAP[i][1]>>]

\* what both maps, plain objects, inherit from Object.prototype: <<property
\* name, the string join() makes of its value>> (a function prints as V8
\* prints a native function)
OBJECT_PROTOTYPE ==
  << << <<"c", "o", "n", "s", "t", "r", "u", "c", "t", "o", "r">>,
        <<"f", "u", "n", "c", "t", "i", "o", "n", " ", "O", "b", "j", "e",
        "c", "t", "(", ")", " ", "{", " ", "[", "n", "a", "t", "i", "v", "e",
        " ", "c", "o", "d", "e", "]", " ", "}">> >>,
     << <<"h", "a", "s", "O", "w", "n", "P", "r", "o", "p", "e", "r", "t",
        "y">>,
        <<"f", "u", "n", "c", "t", "i", "o", "n", " ", "h", "a", "s", "O",
        "w", "n", "P", "r", "o", "p", "e", "r", "t", "y", "(", ")", " ", "{",
        " ", "[", "n", "a", "t", "i", "v", "e", " ", "c", "o", "d", "e", "]",
        " ", "}">> >>,
     << <<"i", "s", "P", "r", "o", "t", "o", "t", "y", "p", "e", "O", "f">>,
        <<"f", "u", "n", "c", "t", "i", "o", "n", " ", "i", "s", "P", "r",
        "o", "t", "o", "t", "y", "p", "e", "O", "f", "(", ")", " ", "{", " ",
        "[", "n", "a", "t", "i", "v", "e", " ", "c", "o", "d", "e", "]", " ",
        "}">> >>,
     << <<"p", "r", "o", "p", "e", "r", "t", "y", "I", "s", "E", "n", "u",
        "m", "e", "r", "a", "b", "l", "e">>,
        <<"f", "u", "n", "c", "t", "i", "o", "n", " ", "p", "r", "o", "p",
        "e", "r", "t", "y", "I", "s", "E", "n", "u", "m", "e", "r", "a", "b",
        "l", "e", "(", ")", " ", "{", " ", "[", "n", "a", "t", "i", "v", "e",
        " ", "c", "o", "d", "e", "]", " ", "}">> >>,
     << <<"t", "o", "L", "o", "c", "a", "l", "e", "S", "t", "r", "i", "n",
        "g">>,
        <<"f", "u", "n", "c", "t", "i", "o", "n", " ", "t", "o", "L", "o",
        "c", "a", "l", "e", "S", "t", "r", "i", "n", "g", "(", ")", " ", "{",
        " ", "[", "n", "a", "t", "i", "v", "e", " ", "c", "o", "d", "e", "]",
        " ", "}">> >>,
     << <<"t", "o", "S", "t", "r", "i", "n", "g">>,
        <<"f", "u", "n", "c", "t", "i", "o", "n", " ", "t", "o", "S", "t",
        "r", "i", "n", "g", "(", ")", " ", "{", " ", "[", "n", "a", "t", "i",
        "v", "e", " ", "c", "o", "d", "e", "]", " ", "}">> >>,
     << <<"v", "a", "l", "u", "e", "O", "f">>,
        <<"f", "u", "n", "c", "t", "i", "o", "n", " ", "v", "a", "l", "u",
        "e", "O", "f", "(", ")", " ", "{", " ", "[", "n", "a", "t", "i", "v",
        "e", " ", "c", "o", "d", "e", "]", " ", "}">> >>,
     << <<"_", "_", "d", "e", "f", "i", "n", "e", "G", "e", "t", "t", "e",
        "r", "_", "_">>,
        <<"f", "u", "n", "c", "t", "i", "o", "n", " ", "_", "_", "d", "e",
        "f", "i", "n", "e", "G", "e", "t", "t", "e", "r", "_", "_", "(", ")",
        " ", "{", " ", "[", "n", "a", "t", "i", "v", "e", " ", "c", "o", "d",
        "e", "]", " ", "}">> >>,
     << <<"_", "_", "d", "e", "f", "i", "n", "e", "S", "e", "t", "t", "e",
        "r", "_", "_">>,
        <<"f", "u", "n", "c", "t", "i", "o", "n", " ", "_", "_", "d", "e",
        "f", "i", "n", "e", "S", "e", "t", "t", "e", "r", "_", "_", "(", ")",
        " ", "{", " ", "[", "n", "a", "t", "i", "v", "e", " ", "c", "o", "d",
        "e", "]", " ", "}">> >>,
     << <<"_", "_", "l", "o", "o", "k", "u", "p", "G", "e", "t", "t", "e",
        "r", "_", "_">>,
        <<"f", "u", "n", "c", "t", "i", "o", "n", " ", "_", "_", "l", "o",
        "o", "k", "u", "p", "G", "e", "t", "t", "e", "r", "_", "_", "(", ")",
        " ", "{", " ", "[", "n", "a", "t", "i", "v", "e", " ", "c", "o", "d",
        "e", "]", " ", "}">> >>,
     << <<"_", "_", "l", "o", "o", "k", "u", "p", "S", "e", "t", "t", "e",
        "r", "_", "_">>,
        <<"f", "u", "n", "c", "t", "i", "o", "n", " ", "_", "_", "l", "o",
        "o", "k", "u", "p", "S", "e", "t", "t", "e", "r", "_", "_", "(", ")",
        " ", "{", " ", "[", "n", "a", "t", "i", "v", "e", " ", "c", "o", "d",
        "e", "]", " ", "}">> >>,
     << <<"_", "_", "p", "r", "o", "t", "o", "_", "_">>,
        <<"[", "o", "b", "j", "e", "c", "t", " ", "O", "b", "j", "e", "c",
        "t", "]">> >> >>

\* map[key] || '': the value of the last entry stored under key, else the
\* property of that name inherited from Object.prototype (truthy, so it is
\* kept), else the empty string
Lookup(map, key) ==
  LET hits == {i \in 1..Len(map) : map[i][1] = key}
      inherited == {i \in 1..Len(OBJECT_PROTOTYPE) :
                      OBJECT_PROTOTYPE[i][1] = key}
  IN IF hits # {}
     THEN map[CHOOSE i \in hits : \A j \in hits : j <= i][2]
     ELSE IF inherited # {}
     THEN OBJECT_PROTOTYPE[CHOOSE i \in inherited : TRUE][2]
     ELSE <<>>

(* -------------------------------- codec ------------------------------- *)

\* EncodeChar without the word-separator branch: a space is looked up in the
\* table like any other character
EncodeChar_NoWordSeparator(char) == Lookup(MORSE_MAP, <<char>>)

\* the callback of textToMorse's map(): one character to its piece
EncodeChar(char) ==
  IF char = " " THEN <<"/">> ELSE Lookup(MORSE_MAP, <<char>>)

textToMorse(text) ==
  LET up     == toUpperCase(text)
      pieces == [i \in 1..Len(up) |-> EncodeChar(up[i])]
  IN trim(replaceWordSeparators(join(pieces, <<" ">>)))

\* the inner callback of morseToText: one word of codes to its characters
DecodeWord(word) ==
  LET codes == split(trim(word), " ")
  IN join([i \in 1..Len(codes) |-> Lookup(REVERSE_MORSE_MAP, codes[i])], <<>>)

morseToText(morse) ==
  LET words == split(trim(morse), "/")
  IN join([i \in 1..Len(words) |-> DecodeWord(words[i])], <<" ">>)

(* ------------------------------- numbers ------------------------------ *)

\* A JavaScript number is an IEEE 754 double: sign, 53-bit significand and
\* exponent, every operation rounded to the nearest double, ties to the even
\* significand. A finite number is held as neg, m, e with the value
\* (-1)^neg * m * 2^e, m odd (or zero, with e = 0), so that every double has
\* one record; m is a natural number in limbs of 15 bits, lowest first,
\* because a significand does not fit an integer of the checker. The
\* exponents of this program stay far inside the range of a double, so
\* overflow and subnormal numbers do not arise.
LIMB == 32768

LIMB_BITS == 15

SIGNIFICAND_BITS == 53

POW2 ==
  << 1, 2, 4, 8, 16, 32, 64, 128, 256, 512, 1024, 2048, 4096, 8192, 16384,
     32768 >>

\* 2^n for n in 0..15
Pow2(n) == POW2[n + 1]

Abs(n) == IF n < 0 THEN 0 - n ELSE n

\* the number of bits of an integer 0 <= x < 2^31
RECURSIVE IntBits(_)
IntBits(x) == IF x = 0 THEN 0 ELSE 1 + IntBits(x \div 2)

\* the number of zero bits at the low end of an integer x > 0
RECURSIVE IntTrailingZeros(_)
IntTrailingZeros(x) ==
  IF x % 2 = 1 THEN 0 ELSE 1 + IntTrailingZeros(x \div 2)

\* a natural number without its leading zero limbs
RECURSIVE BigNorm(_)
BigNorm(a) ==
  IF a # <<>> /\ a[Len(a)] = 0
  THEN BigNorm(SubSeq(a, 1, Len(a) - 1))
  ELSE a

\* the limbs of an integer 0 <= n < 2^31
BigFromInt(n) ==
  IF n = 0 THEN <<>>
  ELSE IF n < LIMB THEN <<n>>
  ELSE IF n < LIMB * LIMB THEN <<n % LIMB, n \div LIMB>>
  ELSE <<n % LIMB, (n \div LIMB) % LIMB, n \div (LIMB * LIMB)>>

\* the integer of at most three limbs, below 2^31
BigToInt(a) ==
  IF a = <<>> THEN 0
  ELSE IF Len(a) = 1 THEN a[1]
  ELSE IF Len(a) = 2 THEN a[1] + LIMB * a[2]
  ELSE a[1] + LIMB * (a[2] + LIMB * a[3])

RECURSIVE BigAddCarry(_, _, _)
BigAddCarry(a, b, c) ==
  IF a = <<>> /\ b = <<>> THEN (IF c = 0 THEN <<>> ELSE <<c>>)
  ELSE LET x == (IF a = <<>> THEN 0 ELSE a[1])
                + (IF b = <<>> THEN 0 ELSE b[1]) + c
       IN <<x % LIMB>> \o BigAddCarry(IF a = <<>> THEN a ELSE Tail(a),
                                      IF b = <<>> THEN b ELSE Tail(b),
                                      x \div LIMB)

BigAdd(a, b) == BigAddCarry(a, b, 0)

RECURSIVE BigSubBorrow(_, _, _)
BigSubBorrow(a, b, c) ==
  IF a = <<>> THEN <<>>
  ELSE LET x == a[1] - (IF b = <<>> THEN 0 ELSE b[1]) - c
       IN <<(x + LIMB) % LIMB>>
          \o BigSubBorrow(Tail(a), IF b = <<>> THEN b ELSE Tail(b),
                          IF x < 0 THEN 1 ELSE 0)

\* a - b for a >= b
BigSub(a, b) == BigNorm(BigSubBorrow(a, b, 0))

\* -1, 0 or 1 as a < b, a = b or a > b
RECURSIVE BigCmp(_, _)
BigCmp(a, b) ==
  IF Len(a) # Len(b) THEN (IF Len(a) < Len(b) THEN 0 - 1 ELSE 1)
  ELSE IF a = <<>> THEN 0
  ELSE IF a[Len(a)] # b[Len(b)]
  THEN (IF a[Len(a)] < b[Len(b)] THEN 0 - 1 ELSE 1)
  ELSE BigCmp(SubSeq(a, 1, Len(a) - 1), SubSeq(b, 1, Len(b) - 1))

RECURSIVE BigMulCarry(_, _, _)
BigMulCarry(a, k, c) ==
  IF a = <<>> THEN BigFromInt(c)
  ELSE LET x == a[1] * k + c
       IN <<x % LIMB>> \o BigMulCarry(Tail(a), k, x \div LIMB)

\* a * k for 0 <= k < 2^16
BigMulSmall(a, k) == IF k = 0 THEN <<>> ELSE BigMulCarry(a, k, 0)

\* quotient (with leading zero limbs) and remainder of a by 0 < d <= 2^16
RECURSIVE BigDivStep(_, _)
BigDivStep(a, d) ==
  IF a = <<>> THEN [q |-> <<>>, r |-> 0]
  ELSE LET upper == BigDivStep(Tail(a), d)
           x     == upper.r * LIMB + a[1]
       IN [q |-> <<x \div d>> \o upper.q, r |-> x % d]

BigDivSmall(a, d) ==
  LET qr == BigDivStep(a, d) IN [q |-> BigNorm(qr.q), r |-> qr.r]

\* a * 2^n
BigShl(a, n) ==
  IF a = <<>> THEN a
  ELSE [i \in 1..(n \div LIMB_BITS) |-> 0]
       \o BigMulSmall(a, Pow2(n % LIMB_BITS))

\* a \div 2^n
BigShr(a, n) ==
  IF n \div LIMB_BITS >= Len(a) THEN <<>>
  ELSE BigDivSmall(SubSeq(a, n \div LIMB_BITS + 1, Len(a)),
                   Pow2(n % LIMB_BITS)).q

\* the number of bits of a
BigBits(a) ==
  IF a = <<>> THEN 0
  ELSE LIMB_BITS * (Len(a) - 1) + IntBits(a[Len(a)])

\* bit i of a, bit 0 the lowest
BigBit(a, i) ==
  IF i \div LIMB_BITS >= Len(a) THEN 0
  ELSE (a[i \div LIMB_BITS + 1] \div Pow2(i % LIMB_BITS)) % 2

\* the n lowest bits of a are all zero
BigLowZero(a, n) ==
  /\ \A i \in 1..(n \div LIMB_BITS) : i <= Len(a) => a[i] = 0
  /\ n \div LIMB_BITS < Len(a) =>
       a[n \div LIMB_BITS + 1] % Pow2(n % LIMB_BITS) = 0

\* the number of zero bits at the low end of a > 0
RECURSIVE BigTrailingZeros(_)
BigTrailingZeros(a) ==
  IF a[1] = 0 THEN LIMB_BITS + BigTrailingZeros(Tail(a))
  ELSE IntTrailingZeros(a[1])

\* the largest k from acc up to acc + 2^(bit + 1) - 1 with k * d <= x, for
\* acc * d <= x: the bits of one limb of a quotient, highest first
RECURSIVE BigQuotientLimb(_, _, _, _)
BigQuotientLimb(x, d, bit, acc) ==
  IF bit < 0 THEN acc
  ELSE IF BigCmp(BigMulSmall(d, acc + Pow2(bit)), x) <= 0
  THEN BigQuotientLimb(x, d, bit - 1, acc + Pow2(bit))
  ELSE BigQuotientLimb(x, d, bit - 1, acc)

\* quotient (with leading zero limbs) and remainder of a by d > 0, one limb
\* of a at a time from the highest
RECURSIVE BigDivLimbs(_, _)
BigDivLimbs(a, d) ==
  IF a = <<>> THEN [q |-> <<>>, r |-> <<>>]
  ELSE LET upper == BigDivLimbs(Tail(a), d)
           x     == BigNorm(<<a[1]>> \o upper.r)
           k     == BigQuotientLimb(x, d, LIMB_BITS - 1, 0)
       IN [q |-> <<k>> \o upper.q, r |-> BigSub(x, BigMulSmall(d, k))]

\* quotient and remainder of a by d > 0
BigDivMod(a, d) ==
  IF BigBits(d) <= LIMB_BITS + 1
  THEN LET qr == BigDivSmall(a, BigToInt(d))
       IN [q |-> qr.q, r |-> BigFromInt(qr.r)]
  ELSE LET qr == BigDivLimbs(a, d) IN [q |-> BigNorm(qr.q), r |-> qr.r]

Zero(neg) == [cls |-> "finite", neg |-> neg, m |-> <<>>, e |-> 0]

Infinity == [cls |-> "infinite", neg |-> FALSE, m |-> <<>>, e |-> 0]

NaN == [cls |-> "nan", neg |-> FALSE, m |-> <<>>, e |-> 0]

IsFinite(x) == x.cls = "finite"

IsNaN(x) == x.cls = "nan"

IsZero(x) == IsFinite(x) /\ x.m = <<>>

\* -x
Negate(x) == IF IsNaN(x) THEN x ELSE [x EXCEPT !.neg = ~x.neg]

\* the record of (-1)^neg * m * 2^e for m of at most 53 bits
Canonical(neg, m, e) ==
  IF m = <<>> THEN Zero(neg)
  ELSE LET t == BigTrailingZeros(m)
       IN [cls |-> "finite", neg |-> neg, m |-> BigShr(m, t), e |-> e + t]

\* the double nearest to (-1)^neg * (m + d) * 2^e, where 0 <= d < 1 and
\* sticky says d > 0 (m then has more than 53 bits): round to nearest, ties
\* to even
Round(neg, m, e, sticky) ==
  IF BigBits(m) <= SIGNIFICAND_BITS THEN Canonical(neg, m, e)
  ELSE LET s  == BigBits(m) - SIGNIFICAND_BITS
           q  == BigShr(m, s)
           up == /\ BigBit(m, s - 1) = 1
                 /\ sticky \/ ~BigLowZero(m, s - 1) \/ BigBit(m, s) = 1
       IN Canonical(neg, IF up THEN BigAdd(q, <<1>>) ELSE q, e + s)

\* the whole number n
Num(n) == Canonical(n < 0, BigFromInt(Abs(n)), 0)

\* x is a whole number below 2^30 in magnitude held in one limb: sums,
\* products, exact quotients and comparisons of such numbers need no
\* rounding and are computed as integers
IsSmall(x) ==
  x.cls = "finite" /\ Len(x.m) <= 1 /\ x.e >= 0 /\ x.e <= LIMB_BITS

\* the magnitude of such a number
SmallMagnitude(x) == IF x.m = <<>> THEN 0 ELSE x.m[1] * Pow2(x.e)

\* the whole number such a number is
SmallInt(x) == IF x.neg THEN 0 - SmallMagnitude(x) ELSE SmallMagnitude(x)

\* a + b
Plus(a, b) ==
  IF IsNaN(a) \/ IsNaN(b) THEN NaN
  ELSE IF ~IsFinite(a)
  THEN (IF ~IsFinite(b) /\ a.neg # b.neg THEN NaN ELSE a)
  ELSE IF ~IsFinite(b) THEN b
  ELSE IF IsZero(a) THEN (IF IsZero(b) THEN Zero(a.neg /\ b.neg) ELSE b)
  ELSE IF IsZero(b) THEN a
  ELSE IF IsSmall(a) /\ IsSmall(b) THEN Num(SmallInt(a) + SmallInt(b))
  ELSE LET e  == IF a.e < b.e THEN a.e ELSE b.e
           ma == BigShl(a.m, a.e - e)
           mb == BigShl(b.m, b.e - e)
           c  == BigCmp(ma, mb)
       IN IF a.neg = b.neg THEN Round(a.neg, BigAdd(ma, mb), e, FALSE)
          ELSE IF c = 0 THEN Zero(FALSE)
          ELSE IF c > 0 THEN Round(a.neg, BigSub(ma, mb), e, FALSE)
          ELSE Round(b.neg, BigSub(mb, ma), e, FALSE)

\* a - b
Minus(a, b) == Plus(a, Negate(b))

\* k * x for an integer k with |k| < 2^16
Times(k, x) ==
  IF IsNaN(x) THEN NaN
  ELSE IF ~IsFinite(x)
  THEN (IF k = 0 THEN NaN ELSE [x EXCEPT !.neg = (x.neg # (k < 0))])
  ELSE IF k # 0 /\ IsSmall(x) /\ ~IsZero(x) /\ SmallMagnitude(x) < LIMB
  THEN Num(k * SmallInt(x))
  ELSE Round(x.neg # (k < 0), BigMulSmall(x.m, Abs(k)), x.e, FALSE)

\* a / b: the significand to 55 bits or more and whether a remainder is left
Ratio(a, b) ==
  IF IsNaN(a) \/ IsNaN(b) THEN NaN
  ELSE IF ~IsFinite(a)
  THEN (IF ~IsFinite(b) THEN NaN ELSE [a EXCEPT !.neg = (a.neg # b.neg)])
  ELSE IF ~IsFinite(b) THEN Zero(a.neg # b.neg)
  ELSE IF IsZero(b)
  THEN (IF IsZero(a) THEN NaN
        ELSE [Infinity EXCEPT !.neg = (a.neg # b.neg)])
  ELSE IF IsZero(a) THEN Zero(a.neg # b.neg)
  ELSE IF a.m = b.m
  THEN \* equal significands: a power of two, exactly
       [cls |-> "finite", neg |-> (a.neg # b.neg), m |-> <<1>>,
        e |-> a.e - b.e]
  ELSE IF /\ IsSmall(a) /\ IsSmall(b)
          /\ SmallMagnitude(a) % SmallMagnitude(b) = 0
  THEN Num((IF a.neg # b.neg THEN 0 - 1 ELSE 1)
           * (SmallMagnitude(a) \div SmallMagnitude(b)))
  ELSE LET need == SIGNIFICAND_BITS + 2 + BigBits(b.m) - BigBits(a.m)
           s    == IF need > 0 THEN need ELSE 0
           qr   == BigDivMod(BigShl(a.m, s), b.m)
       IN Round(a.neg # b.neg, qr.q, a.e - b.e - s, qr.r # <<>>)

\* a / b for integers a and b
Quotient(a, b) == Ratio(Num(a), Num(b))

\* -1, 0 or 1 as the number, NaN apart, is below, at or above zero
Signum(x) == IF IsZero(x) THEN 0 ELSE IF x.neg THEN 0 - 1 ELSE 1

\* |a| < |b| for numbers other than zero and NaN
MagnitudeLess(a, b) ==
  IF ~IsFinite(a) THEN FALSE
  ELSE IF ~IsFinite(b) THEN TRUE
  ELSE IF BigBits(a.m) + a.e # BigBits(b.m) + b.e
  THEN BigBits(a.m) + a.e < BigBits(b.m) + b.e
  ELSE LET e == IF a.e < b.e THEN a.e ELSE b.e
       IN BigCmp(BigShl(a.m, a.e - e), BigShl(b.m, b.e - e)) < 0

\* a < b (false when either is NaN)
Less(a, b) ==
  IF IsSmall(a) /\ IsSmall(b) THEN SmallInt(a) < SmallInt(b)
  ELSE IF IsNaN(a) \/ IsNaN(b) THEN FALSE
  ELSE IF Signum(a) # Signum(b) THEN Signum(a) < Signum(b)
  ELSE IF Signum(a) = 0 THEN FALSE
  ELSE IF Signum(a) > 0 THEN MagnitudeLess(a, b)
  ELSE MagnitudeLess(b, a)

\* a <= b
LessEq(a, b) == ~IsNaN(a) /\ ~IsNaN(b) /\ ~Less(b, a)

\* Math.min
Min(a, b) ==
  IF Less(b, a) THEN b
  ELSE IF Less(a, b) THEN a
  ELSE IF IsNaN(a) \/ IsNaN(b) THEN NaN
  ELSE IF a.neg THEN a ELSE b

\* Math.ceil
Ceil(x) ==
  IF ~IsFinite(x) \/ x.e >= 0 THEN x
  ELSE LET q == BigShr(x.m, 0 - x.e)
       IN Canonical(x.neg, IF x.neg THEN q ELSE BigAdd(q, <<1>>), 0)

RECURSIVE Flatten(_)
Flatten(seqs) ==
  IF seqs = <<>> THEN <<>> ELSE Head(seqs) \o Flatten(Tail(seqs))

(* --------------------------- timing generator ------------------------- *)

CW        == "CW Radio Tone"
TELEGRAPH == "Telegraph Sounder"

DOT_UNITS      == 1
DASH_UNITS     == 3
INTRA_CHAR_GAP == 1
INTER_CHAR_GAP == 3
WORD_GAP       == 7

DEFAULT_CONFIG ==
  [wpm |-> 20, farnsworth |-> 20, pitch |-> 550, volume |-> 80, soundType |-> CW]

MorseEvent(type, duration) == [type |-> type, duration |-> duration]

\* const unitMs = 1200 / config.wpm
UnitMs(config) == Quotient(1200, config.wpm)

\* FarnsworthUnitMs without the `farnsworth > 0` test
FarnsworthUnitMs_Unguarded(config) ==
  IF config.farnsworth < config.wpm
  THEN Quotient(1200, config.farnsworth)
  ELSE UnitMs(config)

\* the spacing unit: the Farnsworth speed when it is slower than wpm
FarnsworthUnitMs(config) ==
  IF config.farnsworth < config.wpm /\ config.farnsworth > 0
  THEN Quotient(1200, config.farnsworth)
  ELSE UnitMs(config)

\* SignalDuration with the dash and dot branches exchanged
SignalDuration_Swapped(sig, unitMs) ==
  IF sig = "-" THEN Times(DOT_UNITS, unitMs) ELSE Times(DASH_UNITS, unitMs)

\* duration of the On event of one signal
SignalDuration(sig, unitMs) ==
  IF sig = "-" THEN Times(DASH_UNITS, unitMs) ELSE Times(DOT_UNITS, unitMs)

\* the signals.forEach of one character: On events with an intra-character
\* gap after every signal but the last
CharEvents(char, unitMs) ==
  [k \in 1..(2 * Len(char) - 1) |->
     IF k % 2 = 1
     THEN MorseEvent("on", SignalDuration(char[(k + 1) \div 2], unitMs))
     ELSE MorseEvent("off", Times(INTRA_CHAR_GAP, unitMs))]

\* the chars.forEach of one word; an empty piece returns before the gap
WordEvents(word, unitMs, farnsworthUnitMs) ==
  LET chars == split(trim(word), " ")
  IN Flatten([c \in 1..Len(chars) |->
       IF chars[c] = <<>> THEN <<>>
       ELSE CharEvents(chars[c], unitMs) \o
            (IF c < Len(chars)
             THEN <<MorseEvent("off", Times(INTER_CHAR_GAP, farnsworthUnitMs))>>
             ELSE <<>>)])

generateTimingSequence(morse, config) ==
  LET unitMs == UnitMs(config)
      farnsworthUnitMs == FarnsworthUnitMs(config)
      words == split(morse, "/")
  IN Flatten([w \in 1..Len(words) |->
       WordEvents(words[w], unitMs, farnsworthUnitMs) \o
       (IF w < Len(words)
        THEN <<MorseEvent("off", Times(WORD_GAP, farnsworthUnitMs))>>
        ELSE <<>>)])

\* events.reduce((sum, e) => sum + e.duration, 0)
RECURSIVE TotalDuration(_)
TotalDuration(events) ==
  IF events = <<>> THEN Num(0)
  ELSE Plus(TotalDuration(SubSeq(events, 1, Len(events) - 1)),
            events[Len(events)].duration)

\* the values currentTimeMs takes in playSequence: entry i is its value
\* when event i is reached, the last entry its final value
RECURSIVE Offsets(_)
Offsets(events) ==
  IF events = <<>> THEN <<Num(0)>>
  ELSE LET before == Offsets(SubSeq(events, 1, Len(events) - 1))
       IN Append(before,
                 Plus(before[Len(before)], events[Len(events)].duration))

(* --------------------------- offline rendering ------------------------ *)

SAMPLE_RATE == 44100
TAIL_MS     == 500
RAMP_MS     == 5

\* the literals 0.005 and 0.03 of renderAudioToWav, in seconds
attack    == Quotient(5, 1000)
release   == Quotient(5, 1000)
CLICK_SEC == Quotient(3, 100)

\* Math.ceil((totalDurationMs + 500) * sampleRate / 1000)
TotalFrames(totalDurationMs) ==
  Ceil(Ratio(Times(SAMPLE_RATE, Plus(totalDurationMs, Num(TAIL_MS))),
             Num(1000)))

\* const durationSec = event.duration / 1000
DurationSec(event) == Ratio(event.duration, Num(1000))

\* the values currentTime takes in renderAudioToWav, in seconds: entry i is
\* its value when event i is reached, the last entry its final value
RECURSIVE CurrentTimes(_)
CurrentTimes(sequence) ==
  IF sequence = <<>> THEN <<Num(0)>>
  ELSE LET before == CurrentTimes(SubSeq(sequence, 1, Len(sequence) - 1))
       IN Append(before,
                 Plus(before[Len(before)],
                      DurationSec(sequence[Len(sequence)])))

\* the oscillator renderAudioToWav creates for one On event starting at
\* currentTime (in seconds): started there, stopped after the whole event
\* (CW) or after min(0.03, durationSec) (Telegraph)
OfflineOscillator(event, currentTime, config) ==
  IF config.soundType = CW
  THEN [type |-> "sine", frequency |-> config.pitch,
        start |-> currentTime,
        stop |-> Plus(currentTime, DurationSec(event))]
  ELSE [type |-> "square", frequency |-> 100,
        start |-> currentTime,
        stop |-> Plus(currentTime, Min(CLICK_SEC, DurationSec(event)))]

\* the gain automation renderAudioToWav adds for one CW On event (value in
\* hundredths, time in seconds)
OfflineEnvelope(event, currentTime, config) ==
  IF config.soundType = CW
  THEN << [op |-> "set",  value |-> 0,             at |-> currentTime],
          [op |-> "ramp", value |-> config.volume,
           at |-> Plus(currentTime, attack)],
          [op |-> "set",  value |-> config.volume,
           at |-> Minus(Plus(currentTime, DurationSec(event)), release)],
          [op |-> "ramp", value |-> 0,
           at |-> Plus(currentTime, DurationSec(event))] >>
  ELSE <<>>

\* the width of the unsigned long the length argument of the
\* OfflineAudioContext constructor is converted to
UNSIGNED_LONG_BITS == 32

\* the n lowest bits of a
BigLowBits(a, n) ==
  BigNorm([i \in 1..(IF Len(a) <= n \div LIMB_BITS
                     THEN Len(a) ELSE n \div LIMB_BITS + 1) |->
             IF i = n \div LIMB_BITS + 1
             THEN a[i] % Pow2(n % LIMB_BITS)
             ELSE a[i]])

\* the conversion of a number to an unsigned long argument, as a natural
\* number in limbs: NaN and the infinities give 0, every other number loses
\* its fraction and is taken modulo 2^32, so that a negative whole number
\* wraps around to a large length
ToUnsignedLong(x) ==
  IF ~IsFinite(x) \/ x.e >= UNSIGNED_LONG_BITS THEN <<>>
  ELSE LET whole == IF x.e >= 0 THEN BigShl(x.m, x.e)
                    ELSE BigShr(x.m, 0 - x.e)
           low   == BigLowBits(whole, UNSIGNED_LONG_BITS)
       IN IF x.neg /\ low # <<>>
          THEN BigSub(BigShl(<<1>>, UNSIGNED_LONG_BITS), low)
          ELSE low

\* new OfflineAudioContext(1, totalFrames, sampleRate) throws when the
\* length, converted to an unsigned long, is 0
IsBufferLength(totalFrames) == ToUnsignedLong(totalFrames) # <<>>

\* the indices of the On events of a sequence: the events the forEach of
\* renderAudioToWav creates an oscillator for
OnEvents(sequence) ==
  SelectSeq([i \in 1..Len(sequence) |-> i],
            LAMBDA i : sequence[i].type = "on")

\* the oscillators of the On events, in order
OfflineOscillators(sequence, currentTime, onIdx, config) ==
  [k \in 1..Len(onIdx) |->
     OfflineOscillator(sequence[onIdx[k]], currentTime[onIdx[k]], config)]

\* the gain automation of the On events, in order
OfflineEnvelopes(sequence, currentTime, onIdx, config) ==
  Flatten([k \in 1..Len(onIdx) |->
     OfflineEnvelope(sequence[onIdx[k]], currentTime[onIdx[k]], config)])

\* start, stop and the automation calls throw a RangeError for a negative
\* time
NegativeTime(oscs, envs) ==
  \/ \E k \in 1..Len(oscs) :
       Less(oscs[k].start, Num(0)) \/ Less(oscs[k].stop, Num(0))
  \/ \E k \in 1..Len(envs) : Less(envs[k].at, Num(0))

\* the offline context of totalFrames frames with what is scheduled on it;
\* threw tells that the call ended with an exception
OfflineContext(totalDurationMs, totalFrames, oscs, envs) ==
  [totalDurationMs |-> totalDurationMs,
   totalFrames |-> totalFrames,
   threw |-> ~IsBufferLength(totalFrames) \/ NegativeTime(oscs, envs),
   oscillators |-> oscs,
   envelope |-> envs]

\* the forEach of renderAudioToWav over the sequence, with the values
\* currentTime takes and the indices of the On events
ScheduleSequence(sequence, totalDurationMs, currentTime, onIdx, config) ==
  OfflineContext(totalDurationMs, TotalFrames(totalDurationMs),
                 OfflineOscillators(sequence, currentTime, onIdx, config),
                 OfflineEnvelopes(sequence, currentTime, onIdx, config))

\* renderAudioToWav from its sequence on
RenderSequence(sequence, config) ==
  ScheduleSequence(sequence, TotalDuration(sequence), CurrentTimes(sequence),
                   OnEvents(sequence), config)

\* renderAudioToWav up to startRendering: the frame count of the offline
\* context and what is scheduled on it
renderAudioToWav(morse, config) ==
  RenderSequence(generateTimingSequence(morse, config), config)

(* ---------------------------- container encoder ---------------------- *)

\* A sample is held as a whole number of quarters: q stands for q / 4, a
\* value a Float32Array holds exactly.
SampleDenominator == 2 * 2

\* a / b truncated toward zero, b > 0: what `| 0` leaves of a quotient
TruncDiv(a, b) == IF a >= 0 THEN a \div b ELSE 0 - ((0 - a) \div b)

\* Math.max(-1, Math.min(1, sample))
Clamp(q) ==
  IF q > SampleDenominator THEN SampleDenominator
  ELSE IF q < 0 - SampleDenominator THEN 0 - SampleDenominator
  ELSE q

\* (0.5 + sample < 0 ? sample * 32768 : sample * 32767) | 0 of the clamped
\* sample; 0.5 is two quarters
Int16Of(q) ==
  LET sample == Clamp(q)
  IN IF 2 + sample < 0
     THEN TruncDiv(sample * 32768, SampleDenominator)
     ELSE TruncDiv(sample * 32767, SampleDenominator)

\* the bytes DataView.setUint16 / setInt16(.., true) stores: little-endian
BytesLE16(v) ==
  LET u == IF v < 0 THEN v + 65536 ELSE v
  IN <<u % 256, u \div 256>>

\* the bytes DataView.setUint32(.., true) stores
BytesLE32(v) ==
  <<v % 256, (v \div 256) % 256, (v \div 65536) % 256, v \div 16777216>>

\* the 16-bit signed value stored little-endian in two bytes
Int16FromLE(lo, hi) ==
  LET u == lo + 256 * hi IN IF u >= 32768 THEN u - 65536 ELSE u

\* the 32-bit value stored little-endian in four bytes
Uint32FromLE(b) == b[1] + 256 * b[2] + 65536 * b[3] + 16777216 * b[4]

RIFF_TAG == 1179011410
WAVE_TAG == 1163280727
FMT_TAG  == 544501094
DATA_TAG == 1635017060

\* const length = abuffer.length * numOfChan * 2 + 44
WavLength_NoHeader(abuffer) == abuffer.length * abuffer.numberOfChannels * 2

WavLength(abuffer) == abuffer.length * abuffer.numberOfChannels * 2 + 44

\* the setUint32 / setUint16 calls of the header up to and including the
\* "data" tag, each advancing pos by the bytes it writes
HeaderUpToDataTag(abuffer) ==
  LET numOfChan == abuffer.numberOfChannels
  IN Flatten(<< BytesLE32(RIFF_TAG),
                BytesLE32(WavLength(abuffer) - 8),
                BytesLE32(WAVE_TAG),
                BytesLE32(FMT_TAG),
                BytesLE32(16),
                BytesLE16(1),
                BytesLE16(numOfChan),
                BytesLE32(abuffer.sampleRate),
                BytesLE32(abuffer.sampleRate * 2 * numOfChan),
                BytesLE16(numOfChan * 2),
                BytesLE16(16),
                BytesLE32(DATA_TAG) >>)

\* the whole header: the data-chunk length is length - pos - 4, pos being
\* the write position when that field is written
WavHeader(abuffer) ==
  LET head == HeaderUpToDataTag(abuffer)
      pos  == Len(head)
  IN head \o BytesLE32(WavLength(abuffer) - pos - 4)

\* the sample loop: it goes on from the pos the header left, reads
\* channels[0][pos] and writes it at 44 + offset, offset counting from 0;
\* the ArrayBuffer is zero where nothing is written
WavData(abuffer, pos) ==
  Flatten([k \in 1..abuffer.length |->
     IF pos + (k - 1) < abuffer.length
     THEN BytesLE16(Int16Of(abuffer.data[pos + k]))
     ELSE <<0, 0>>])

\* bufferToWav for a mono buffer: the bytes of the Blob and the write
\* position the header left
bufferToWav(abuffer) ==
  LET header == WavHeader(abuffer)
      length == WavLength(abuffer)
      body   == WavData(abuffer, Len(header))
  IN [bytes |-> SubSeq(header \o body, 1, length), headerEnd |-> Len(header)]

(* ------------------------------- state -------------------------------- *)

VARIABLES
  \* codec run: a text, its code and the code decoded again
  cText, cMorse, cBack, cPc,
  \* timing run: a code string, a config, the events and the offline render
  tMorse, tConfig, tEvents, tRender, tPc,
  \* container run: an AudioBuffer and the WAV bytes bufferToWav makes of it
  wBuffer, wWav, wPc,
  \* App.tsx component state (useState)
  inputMode, inputText, morseText, config, options, playback, isLightActive,
  \* App.tsx refs (useRef)
  audioCtxRef, activeGainNodeRef, timeoutRefs,
  \* the browser: pending window.setTimeout timers, the oscillators that
  \* reach the destination, the gain nodes connected to it, the last
  \* navigator.vibrate request, what the platform offers
  timers, oscillators, connected, vibration, platform,
  \* sessions started so far (also the id of the newest session gain node)
  sessions,
  \* settings changes made so far in a run of the App
  settingsChanges,
  \* bookkeeping: the last handler that ran and whether a session was
  \* playing when it was called; the last exception a handler ended with
  lastCall, lastError

codecVars  == <<cText, cMorse, cBack, cPc>>
timingVars == <<tMorse, tConfig, tEvents, tRender, tPc>>
appVars    == <<inputMode, inputText, morseText, config, options, playback,
                isLightActive, audioCtxRef, activeGainNodeRef, timeoutRefs,
                timers, oscillators, connected, vibration, platform,
                sessions, settingsChanges, lastCall, lastError>>
wavVars    == <<wBuffer, wWav, wPc>>
vars       == <<codecVars, timingVars, appVars, wavVars>>

Range(s) == {s[i] : i \in 1..Len(s)}

SeqsUpTo(S, n) == UNION {[1..k -> S] : k \in 0..n}

NoRender ==
  [totalDurationMs |-> Num(0), totalFrames |-> Num(0), threw |-> FALSE,
   oscillators |-> <<>>, envelope |-> <<>>]

CodecIdle ==
  cText = <<>> /\ cMorse = <<>> /\ cBack = <<>> /\ cPc = "idle"

TimingIdle ==
  /\ tMorse = <<>> /\ tConfig = DEFAULT_CONFIG /\ tEvents = <<>>
  /\ tRender = NoRender /\ tPc = "idle"

NoBuffer ==
  [numberOfChannels |-> 1, sampleRate |-> 44100, length |-> 0, data |-> <<>>]

NoWav == [bytes |-> <<>>, headerEnd |-> 0]

WavIdle == wBuffer = NoBuffer /\ wWav = NoWav /\ wPc = "idle"

(* ------------------------------ codec runs ---------------------------- *)

TextAlphabet == {"e", "T", " ", "/", "#", "ß"}

TextExamples ==
  { <<"A", " ", "B">>, <<"S", "O", "S">>, <<"e", "i", "s", "h", "5">>,
    \* letters of other scripts: an upper case of three characters, of one
    \* character, and of a letter beyond U+FFFF
    <<"T", "U+0390", "T">>, <<"e", "U+0101", "T">>,
    <<"e", "U+D801", "U+DC28", "T">> }

Texts == SeqsUpTo(TextAlphabet, MaxTextLen) \cup TextExamples

Encode ==
  /\ cPc = "text"
  /\ cMorse' = textToMorse(cText)
  /\ cPc' = "encoded"
  /\ UNCHANGED <<cText, cBack, timingVars, appVars, wavVars>>

Decode ==
  /\ cPc = "encoded"
  /\ cBack' = morseToText(cMorse)
  /\ cPc' = "decoded"
  /\ UNCHANGED <<cText, cMorse, timingVars, appVars, wavVars>>

(* ------------------------------ timing runs --------------------------- *)

CodeAlphabet == {".", "-", " ", "/"}

SOS_CODE == <<".", ".", ".", " ", "-", "-", "-", " ", ".", ".", ".">>

CodeExamples ==
  { SOS_CODE,
    <<".", "-", " ", "/", " ", "-", ".", ".", ".">>,
    <<".", "-", " ", "/", " ", "/", " ", "-", ".", ".", ".">>,
    <<".", " ", "/", " ", ".">>,
    <<" ", "/", " ", "/", " ">>,
    \* a form feed before and a no-break space after the code
    <<"\f", ".", "-">>,
    <<"-", " ", ".", " ">> }

Codes == SeqsUpTo(CodeAlphabet, MaxCodeLen) \cup CodeExamples

\* speeds that divide 1200 and two that do not (at 35 the frame count shows
\* the rounding of the product); 300, at which a dot is shorter than the
\* release of the envelope; 0 and a negative one for the invalid configs
WpmValues        == {-20, 0, 13, 20, 35, 40, 300}
FarnsworthValues == {0, 10, 20, 40}

TimingConfigs ==
  { [DEFAULT_CONFIG EXCEPT !.wpm = w, !.farnsworth = f, !.soundType = s] :
      w \in WpmValues, f \in FarnsworthValues, s \in {CW, TELEGRAPH} }

Generate ==
  /\ tPc = "code"
  /\ tEvents' = generateTimingSequence(tMorse, tConfig)
  /\ tPc' = "generated"
  /\ UNCHANGED <<tMorse, tConfig, tRender, codecVars, appVars, wavVars>>

\* a call of renderAudioToWav
Render ==
  /\ tPc = "generated"
  /\ tRender' = renderAudioToWav(tMorse, tConfig)
  /\ tPc' = "rendered"
  /\ UNCHANGED <<tMorse, tConfig, tEvents, codecVars, appVars, wavVars>>

(* ------------------------------ App.tsx ------------------------------- *)

NULL == 0

NoError == "none"

ONE == Num(1)

\* Math.min(currentTimeMs / totalDuration, 1)
Fraction(currentTimeMs, totalDuration) ==
  Min(Ratio(currentTimeMs, totalDuration), ONE)

INITIAL_TEXT == <<"e", "i", "s", "h", "5">>

INITIAL_OPTIONS ==
  [enableSound |-> TRUE, enableLight |-> TRUE, enableVibrate |-> FALSE,
   loop |-> FALSE]

INITIAL_PLAYBACK ==
  [isPlaying |-> FALSE, isPaused |-> FALSE, progress |-> Num(0),
   currentIndex |-> 0]

\* the state of a freshly mounted App on a platform p
AppInitOn(p) ==
  /\ inputMode = "text"
  /\ inputText = INITIAL_TEXT
  /\ morseText = textToMorse(INITIAL_TEXT)
  /\ config = DEFAULT_CONFIG
  /\ options = INITIAL_OPTIONS
  /\ playback = INITIAL_PLAYBACK
  /\ isLightActive = FALSE
  /\ audioCtxRef = "null"
  /\ activeGainNodeRef = NULL
  /\ timeoutRefs = <<>>
  /\ timers = {}
  /\ oscillators = <<>>
  /\ connected = {}
  /\ vibration = Num(0)
  /\ platform = p
  /\ sessions = 0
  /\ settingsChanges = 0
  /\ lastCall = [op |-> "other", wasPlaying |-> FALSE]
  /\ lastError = NoError

AppIdle == AppInitOn([audio |-> TRUE, vibrate |-> TRUE])

UI_TOGGLES == {"enableSound", "enableLight", "enableVibrate"}

OPTION_KEYS == UI_TOGGLES \cup {"loop"}

\* what the user types into either text area
AppVals == { <<>>, <<"e">>, <<"n">>, <<" ">> }

\* what the settings sliders are moved to
AppWpmValues        == {20, 40}
AppFarnsworthValues == {10, 20}
AppPitchValues      == {550, 700}
AppVolumeValues     == {50, 80}

StringToPlay == IF inputMode = "text" THEN morseText ELSE inputText

\* the values of what stopPlayback writes, as they are now
Untouched ==
  [activeGainNodeRef |-> activeGainNodeRef,
   connected     |-> connected,
   oscillators   |-> oscillators,
   timers        |-> timers,
   timeoutRefs   |-> timeoutRefs,
   vibration     |-> vibration,
   isLightActive |-> isLightActive,
   playback      |-> playback]

\* stopPlayback emptying timeoutRefs without clearing the timers in it
stopPlayback_NoClearTimeout ==
  [activeGainNodeRef |-> NULL,
   connected     |-> connected \ {activeGainNodeRef},
   oscillators   |-> SelectSeq(oscillators,
                               LAMBDA o : o.gain # activeGainNodeRef),
   timers        |-> timers,
   timeoutRefs   |-> <<>>,
   vibration     |-> IF platform.vibrate THEN Num(0) ELSE vibration,
   isLightActive |-> FALSE,
   playback      |-> [isPlaying |-> FALSE, isPaused |-> FALSE,
                      progress |-> Num(0), currentIndex |-> 0]]

\* stopPlayback: the values it leaves in what it writes.  Disconnecting the
\* session gain cuts its oscillators off the destination; clearTimeout
\* removes every timer whose id is in timeoutRefs.
stopPlayback ==
  [activeGainNodeRef |-> NULL,
   connected     |-> connected \ {activeGainNodeRef},
   oscillators   |-> SelectSeq(oscillators,
                               LAMBDA o : o.gain # activeGainNodeRef),
   timers        |-> {t \in timers : t.id \notin Range(timeoutRefs)},
   timeoutRefs   |-> <<>>,
   vibration     |-> IF platform.vibrate THEN Num(0) ELSE vibration,
   isLightActive |-> FALSE,
   playback      |-> [isPlaying |-> FALSE, isPaused |-> FALSE,
                      progress |-> Num(0), currentIndex |-> 0]]

\* writes the result s of stopPlayback into the state
Stopped(s) ==
  /\ activeGainNodeRef' = s.activeGainNodeRef
  /\ connected' = s.connected
  /\ oscillators' = s.oscillators
  /\ timers' = s.timers
  /\ timeoutRefs' = s.timeoutRefs
  /\ vibration' = s.vibration
  /\ isLightActive' = s.isLightActive
  /\ playback' = s.playback

\* the bookkeeping of a handler: which one ran and, for playSequence and
\* stopPlayback, whether a session was playing when it was called
Called(op) ==
  lastCall' = [op |-> op,
               wasPlaying |-> op # "other" /\ playback.isPlaying]

\* handlePause, and every other direct call of stopPlayback
StopPlayback ==
  /\ Stopped(stopPlayback)
  /\ Called("stopPlayback")
  /\ UNCHANGED <<inputMode, inputText, morseText, config, options,
                 audioCtxRef, platform, sessions, settingsChanges,
                 lastError, codecVars, timingVars, wavVars>>

HandleSwapMode ==
  /\ Stopped(stopPlayback)
  /\ inputMode' = IF inputMode = "text" THEN "morse" ELSE "text"
  /\ inputText' = morseText
  /\ morseText' = inputText
  /\ Called("other")
  /\ UNCHANGED <<config, options, audioCtxRef, platform, sessions,
                 settingsChanges, lastError, codecVars, timingVars, wavVars>>

HandleMainInputChange(val) ==
  /\ inputText' = val
  /\ Stopped(stopPlayback)
  /\ morseText' = IF inputMode = "text" THEN textToMorse(val)
                  ELSE morseToText(val)
  /\ Called("other")
  /\ UNCHANGED <<inputMode, config, options, audioCtxRef, platform,
                 sessions, settingsChanges, lastError,
                 codecVars, timingVars, wavVars>>

HandleSecondaryDisplayChange(val) ==
  /\ morseText' = val
  /\ Stopped(stopPlayback)
  /\ inputText' = IF inputMode = "text" THEN morseToText(val)
                  ELSE textToMorse(val)
  /\ Called("other")
  /\ UNCHANGED <<inputMode, config, options, audioCtxRef, platform,
                 sessions, settingsChanges, lastError,
                 codecVars, timingVars, wavVars>>

\* the updater toggleOption hands to setOptions
\* toggleOption without the sound-or-light constraint
toggleOption_Unconstrained(prev, key) ==
  [prev EXCEPT ![key] = ~prev[key]]

toggleOption(prev, key) ==
  LET next == [prev EXCEPT ![key] = ~prev[key]]
  IN IF key \in {"enableSound", "enableLight"}
        /\ ~next.enableSound /\ ~next.enableLight
     THEN prev
     ELSE next

ToggleOption(key) ==
  /\ options' = toggleOption(options, key)
  /\ Called("other")
  /\ UNCHANGED <<inputMode, inputText, morseText, config, playback,
                 isLightActive, audioCtxRef, activeGainNodeRef, timeoutRefs,
                 timers, oscillators, connected, vibration, platform,
                 sessions, lastError, codecVars, timingVars, wavVars>>

\* setConfig({...config, [field]: value}) of a slider or of the sound-type
\* select
SetConfig(next) ==
  /\ next # config
  /\ config' = next
  /\ Called("other")
  /\ UNCHANGED <<inputMode, inputText, morseText, options, playback,
                 isLightActive, audioCtxRef, activeGainNodeRef, timeoutRefs,
                 timers, oscillators, connected, vibration, platform,
                 sessions, lastError, codecVars, timingVars, wavVars>>

\* initAudio: creates the AudioContext on first use (resuming it when it
\* starts suspended); `new (undefined)()` throws where the platform has none
initAudio ==
  IF audioCtxRef = "null" /\ ~platform.audio
  THEN [threw |-> TRUE, audioCtxRef |-> audioCtxRef]
  ELSE [threw |-> FALSE, audioCtxRef |-> "running"]

\* playSequence without its opening stopPlayback() call
StoppedBeforeStart_Skipped == Untouched

\* the stopPlayback() call that opens playSequence
StoppedBeforeStart == stopPlayback

\* the oscillator playSequence schedules for one On event at offset ms
\* after the context's current time, routed through session gain g
RealTimeOscillator(event, offset, cfg, g) ==
  IF cfg.soundType = CW
  THEN [gain |-> g, type |-> "sine", frequency |-> cfg.pitch,
        start |-> offset, stop |-> Plus(offset, event.duration),
        envelope |->
          << [op |-> "set",  value |-> 0,          at |-> offset],
             [op |-> "ramp", value |-> cfg.volume,
              at |-> Plus(offset, Num(RAMP_MS))],
             [op |-> "set",  value |-> cfg.volume,
              at |-> Minus(Plus(offset, event.duration), Num(RAMP_MS))],
             [op |-> "ramp", value |-> 0,
              at |-> Plus(offset, event.duration)] >>]
  ELSE [gain |-> g, type |-> "square", frequency |-> 100,
        start |-> offset, stop |-> Plus(offset, event.duration),
        envelope |-> <<[op |-> "set", value |-> cfg.volume, at |-> Num(0)]>>]

\* the oscillators of a session: one per On event when sound is enabled
SessionOscillators(events, cfg, opts, g) ==
  LET currentTimeMs == Offsets(events)
      onIdx == SelectSeq([i \in 1..Len(events) |-> i],
                         LAMBDA i : events[i].type = "on")
  IN IF opts.enableSound
     THEN [k \in 1..Len(onIdx) |->
             RealTimeOscillator(events[onIdx[k]], currentTimeMs[onIdx[k]],
                                cfg, g)]
     ELSE <<>>

\* the handle window.setTimeout returns: never reused, increasing in the
\* order of registration (the n-th timer of the session with gain g)
TimerId(g, n) == [session |-> g, n |-> n]

\* id1 was registered no later than id2
Earlier(id1, id2) ==
  id1.session < id2.session \/ (id1.session = id2.session /\ id1.n <= id2.n)

Timer(id, at, kind, g, event, opts, total) ==
  [id |-> id, at |-> at, kind |-> kind, session |-> g,
   type |-> event.type, duration |-> event.duration,
   enableLight |-> opts.enableLight, enableVibrate |-> opts.enableVibrate,
   \* the callback reads the variable currentTimeMs when it runs, after
   \* the scheduling loop has advanced it past the last event
   currentTimeMs |-> total, totalDuration |-> total]

\* number of timers playSequence registers before the one of event i
TimersBefore(events, i) ==
  (i - 1) + Cardinality({j \in 1..(i - 1) : events[j].type = "on"})

\* SessionTimers without the end-of-sequence handler
SessionTimers_NoEndHandler(events, opts, g) ==
  LET n     == Len(events)
      currentTimeMs == Offsets(events)
      total == currentTimeMs[n + 1]
  IN { Timer(TimerId(g, TimersBefore(events, i) + 1), currentTimeMs[i],
             "event", g, events[i], opts, total) : i \in 1..n }
     \cup
     { Timer(TimerId(g, TimersBefore(events, i) + 2),
             Plus(currentTimeMs[i], events[i].duration),
             "off", g, events[i], opts, total) :
         i \in {j \in 1..n : events[j].type = "on"} }

\* the timers of a session: per event its callback, per On event the
\* light-off callback at its end, and the end-of-sequence handler
SessionTimers(events, opts, g) ==
  LET n     == Len(events)
      currentTimeMs == Offsets(events)
      total == currentTimeMs[n + 1]
  IN { Timer(TimerId(g, TimersBefore(events, i) + 1), currentTimeMs[i],
             "event", g, events[i], opts, total) : i \in 1..n }
     \cup
     { Timer(TimerId(g, TimersBefore(events, i) + 2),
             Plus(currentTimeMs[i], events[i].duration),
             "off", g, events[i], opts, total) :
         i \in {j \in 1..n : events[j].type = "on"} }
     \cup
     { Timer(TimerId(g, TimersBefore(events, n + 1) + 1), Plus(total, Num(100)),
             "end", g, MorseEvent("off", Num(0)), opts, total) }

PlaySequence ==
  LET a == initAudio
      s == StoppedBeforeStart
      stringToPlay == StringToPlay
      events == generateTimingSequence(stringToPlay, config)
      g == sessions + 1
      count == TimersBefore(events, Len(events) + 1) + 1
  IN
  /\ sessions < MaxSessions
  /\ Called("playSequence")
  /\ audioCtxRef' = a.audioCtxRef
  /\ IF a.threw
     THEN \* the promise playSequence returns is rejected; nothing else ran
          /\ lastError' = "TypeError"
          /\ UNCHANGED <<playback, isLightActive, activeGainNodeRef,
                         timeoutRefs, timers, oscillators, connected,
                         vibration, sessions>>
     ELSE IF trim(stringToPlay) = <<>>
     THEN /\ Stopped(s)
          /\ UNCHANGED <<sessions, lastError>>
     ELSE /\ playback' = [s.playback EXCEPT !.isPlaying = TRUE,
                                            !.isPaused = FALSE]
          /\ activeGainNodeRef' = g
          /\ connected' = s.connected \cup {g}
          /\ oscillators' =
               s.oscillators \o SessionOscillators(events, config, options, g)
          /\ timers' =
               s.timers \cup SessionTimers(events, options, g)
          /\ timeoutRefs' =
               s.timeoutRefs \o [k \in 1..count |-> TimerId(g, k)]
          /\ sessions' = g
          /\ isLightActive' = s.isLightActive
          /\ vibration' = s.vibration
          /\ UNCHANGED lastError
  /\ UNCHANGED <<inputMode, inputText, morseText, config, options, platform,
                 settingsChanges, codecVars, timingVars, wavVars>>

\* the pending timer the browser runs next: earliest deadline, and among
\* equal deadlines the one registered first
NextTimer ==
  CHOOSE t \in timers :
    \A u \in timers :
      Less(t.at, u.at) \/ (t.at = u.at /\ Earlier(t.id, u.id))

\* the callback of an event timer
FireEvent(t) ==
  /\ t.kind = "event"
  /\ isLightActive' = IF t.type = "on"
                      THEN (IF t.enableLight THEN TRUE ELSE isLightActive)
                      ELSE FALSE
  /\ vibration' = IF t.type = "on" /\ t.enableVibrate /\ platform.vibrate
                  THEN t.duration ELSE vibration
  /\ playback' = [playback EXCEPT
                    !.progress = Fraction(t.currentTimeMs, t.totalDuration)]
  /\ timers' = timers \ {t}
  /\ Called("other")
  /\ UNCHANGED <<activeGainNodeRef, timeoutRefs, oscillators, connected>>

\* the callback that turns the light off at the end of an On event
FireOff(t) ==
  /\ t.kind = "off"
  /\ isLightActive' = FALSE
  /\ timers' = timers \ {t}
  /\ Called("other")
  /\ UNCHANGED <<playback, vibration, activeGainNodeRef, timeoutRefs,
                 oscillators, connected>>

\* the end-of-sequence handler: stopPlayback()
FireEnd(t) ==
  /\ t.kind = "end"
  /\ Stopped(stopPlayback)
  /\ Called("stopPlayback")

FireTimer ==
  /\ timers # {}
  /\ \E t \in {NextTimer} : FireEvent(t) \/ FireOff(t) \/ FireEnd(t)
  /\ UNCHANGED <<inputMode, inputText, morseText, config, options,
                 audioCtxRef, platform, sessions, settingsChanges,
                 lastError, codecVars, timingVars, wavVars>>

(* --------------------------- specifications --------------------------- *)

\* platforms with and without an AudioContext constructor, with and
\* without navigator.vibrate
Platforms == {[audio |-> a, vibrate |-> v] : a \in BOOLEAN, v \in BOOLEAN}

Init ==
  /\ \E p \in Platforms : AppInitOn(p)
  /\ CodecIdle
  /\ TimingIdle
  /\ WavIdle

\* the speed slider (and the one of the settings dialog)
SetWpm ==
  \E w \in AppWpmValues : SetConfig([config EXCEPT !.wpm = w])

\* the Farnsworth speed slider of the settings dialog
SetFarnsworth ==
  \E f \in AppFarnsworthValues : SetConfig([config EXCEPT !.farnsworth = f])

\* the pitch slider (and the one of the settings dialog)
SetPitch ==
  \E p \in AppPitchValues : SetConfig([config EXCEPT !.pitch = p])

\* the volume slider
SetVolume ==
  \E v \in AppVolumeValues : SetConfig([config EXCEPT !.volume = v])

\* the sound-type select of the settings dialog
SetSoundType ==
  \E st \in {CW, TELEGRAPH} : SetConfig([config EXCEPT !.soundType = st])

\* a move of a slider or of the select
SetSlider == SetWpm \/ SetFarnsworth \/ SetPitch \/ SetVolume \/ SetSoundType

\* a change of the settings in a run of the App: an output toggle or a
\* slider, at most MaxSettingsChanges times
ChangeSettings ==
  /\ settingsChanges < MaxSettingsChanges
  /\ settingsChanges' = settingsChanges + 1
  /\ \/ \E key \in UI_TOGGLES : ToggleOption(key)
     \/ SetSlider

Next ==
  \/ PlaySequence
  \/ StopPlayback
  \/ FireTimer
  \/ HandleSwapMode
  \/ \E val \in AppVals : HandleMainInputChange(val)
  \/ \E val \in AppVals : HandleSecondaryDisplayChange(val)
  \/ ChangeSettings

Spec == Init /\ [][Next]_vars

\* the browser runs a pending timer callback once its deadline has passed
FairSpec == Spec /\ WF_vars(FireTimer)

\* the settings handlers alone, any number of times, over every option key,
\* every slider and the select
SettingsNext ==
  /\ \/ \E key \in OPTION_KEYS : ToggleOption(key)
     \/ SetSlider
  /\ UNCHANGED settingsChanges

SettingsSpec == Init /\ [][SettingsNext]_vars

CodecInit ==
  /\ cText \in Texts /\ cMorse = <<>> /\ cBack = <<>> /\ cPc = "text"
  /\ TimingIdle
  /\ AppIdle
  /\ WavIdle

CodecNext == Encode \/ Decode

CodecSpec == CodecInit /\ [][CodecNext]_vars

TimingInit ==
  /\ tMorse \in Codes /\ tConfig \in TimingConfigs /\ tEvents = <<>>
  /\ tRender = NoRender /\ tPc = "code"
  /\ CodecIdle
  /\ AppIdle
  /\ WavIdle

TimingNext == Generate \/ Render

TimingSpec == TimingInit /\ [][TimingNext]_vars

(* ----------------------------- container runs ------------------------ *)

\* longest buffer handed to bufferToWav (the sample loop starts at 44)
MaxFrames == 46

\* samples from -1.5 to 1.5 in quarters
SampleValues == (0 - 6)..6

\* mono buffers at 44,100 Hz whose samples alternate between two values
Buffers ==
  { [numberOfChannels |-> 1, sampleRate |-> 44100, length |-> n,
     data |-> [i \in 1..n |-> IF i % 2 = 1 THEN v ELSE w]] :
    n \in 0..MaxFrames, v \in SampleValues, w \in SampleValues }

BufferToWav ==
  /\ wPc = "buffer"
  /\ wWav' = bufferToWav(wBuffer)
  /\ wPc' = "encoded"
  /\ UNCHANGED <<wBuffer, codecVars, timingVars, appVars>>

WavInit ==
  /\ wBuffer \in Buffers /\ wWav = NoWav /\ wPc = "buffer"
  /\ CodecIdle
  /\ TimingIdle
  /\ AppIdle

WavNext == BufferToWav

WavSpec == WavInit /\ [][WavNext]_vars

(* ------------------------------- claims ------------------------------- *)

\* the characters textToMorse keeps: the space and the keys of MORSE_MAP
IsMapped(c) ==
  c = " " \/ \E i \in 1..Len(MORSE_MAP) : MORSE_MAP[i][1] = <<c>>

\* text in upper case with every unmapped character removed
StripUnmapped(text) == SelectSeq(toUpperCase(text), IsMapped)

\* C6: decoding the code of a text gives the text in upper case with every
\* character that is neither a space nor a key of MORSE_MAP removed
C6_RoundTrip == cPc = "decoded" => cBack = StripUnmapped(cText)

\* a text with a leading space, a lower-case letter, an unmapped character
\* and the mapped character '/' has been encoded and decoded
C6_Witness ==
  /\ cPc = "decoded"
  /\ cText = <<" ", "e", "#", "/">>
  /\ cBack = <<" ", "E", "/">>

IsTrimmed(s) ==
  s = <<>> \/ (~IsWhiteSpace(s[1]) /\ ~IsWhiteSpace(s[Len(s)]))

NoDoubleSpace(s) ==
  \A i \in 1..(Len(s) - 1) : ~(s[i] = " " /\ s[i + 1] = " ")

\* C7: the code of a text is trimmed and is the codes of its mapped
\* characters ('/' for a space) joined by exactly one space; an unmapped
\* character leaves no trace, so no two spaces are ever adjacent
C7_SingleSpaced ==
  cPc \in {"encoded", "decoded"} =>
    LET kept == StripUnmapped(cText)
    IN /\ cMorse = join([i \in 1..Len(kept) |-> EncodeChar(kept[i])], <<" ">>)
       /\ IsTrimmed(cMorse)
       /\ NoDoubleSpace(cMorse)

Generated == tPc \in {"generated", "rendered"}

\* C3: the empty code string and every code string made only of '/' and
\* spaces generate the empty sequence (stated for the valid speeds, wpm > 0)
C3_SeparatorsOnlyEmpty ==
  ( /\ Generated
    /\ tConfig.wpm > 0
    /\ \A i \in 1..Len(tMorse) : tMorse[i] \in {"/", " "} )
    => tEvents = <<>>

\* the sequence the same code and wpm generate with farnsworth == wpm
BaseEvents ==
  generateTimingSequence(tMorse, [tConfig EXCEPT !.farnsworth = tConfig.wpm])

\* C4: with 0 < farnsworth < wpm every inter-character gap lasts
\* 3 * (1200 / farnsworth) and every word gap 7 * (1200 / farnsworth), both
\* longer than with farnsworth == wpm, and nothing else changes; with any
\* other farnsworth the sequence is the one generated with farnsworth == wpm
C4_FarnsworthGaps ==
  Generated =>
    LET base == BaseEvents
        f    == tConfig.farnsworth
        u    == UnitMs(tConfig)
    IN IF 0 < f /\ f < tConfig.wpm
       THEN /\ Len(tEvents) = Len(base)
            /\ \A i \in 1..Len(base) :
                 /\ tEvents[i].type = base[i].type
                 /\ base[i].type = "on" =>
                      tEvents[i].duration = base[i].duration
                 /\ base[i].type = "off" =>
                      /\ base[i].duration \in {u, Times(3, u), Times(7, u)}
                      /\ base[i].duration = u =>
                           tEvents[i].duration = u
                      /\ base[i].duration = Times(3, u) =>
                           /\ tEvents[i].duration = Times(3, Quotient(1200, f))
                           /\ Less(base[i].duration, tEvents[i].duration)
                      /\ base[i].duration = Times(7, u) =>
                           /\ tEvents[i].duration = Times(7, Quotient(1200, f))
                           /\ Less(base[i].duration, tEvents[i].duration)
       ELSE tEvents = base

\* ". ./" at wpm 40 with farnsworth 10: an inter-character gap of 360 ms and
\* a word gap of 840 ms around dots of 30 ms
C4_Witness ==
  /\ Generated
  /\ tMorse = <<".", " ", ".", "/">>
  /\ tConfig.wpm = 40 /\ tConfig.farnsworth = 10
  /\ tEvents = << MorseEvent("on", Num(30)), MorseEvent("off", Num(360)),
                  MorseEvent("on", Num(30)), MorseEvent("off", Num(840)) >>

\* positions of the symbols '.' and '-' in the code string, in order
SymbolPositions(morse) ==
  SelectSeq([i \in 1..Len(morse) |-> i], LAMBDA i : morse[i] \in {".", "-"})

\* indices of the On events of a sequence, in order
OnIndices(events) ==
  SelectSeq([i \in 1..Len(events) |-> i], LAMBDA i : events[i].type = "on")

\* C5: for wpm > 0 the On events are the symbols of the code string in order,
\* 1200/wpm ms for '.' and 3 * 1200/wpm ms for '-', and two neighbouring
\* symbols of one character are separated by exactly one Off event of
\* 1200/wpm ms, whatever farnsworth is
C5_SymbolDurations ==
  (Generated /\ tConfig.wpm > 0) =>
    LET unit == Quotient(1200, tConfig.wpm)
        pos  == SymbolPositions(tMorse)
        on   == OnIndices(tEvents)
    IN /\ Len(on) = Len(pos)
       /\ \A k \in 1..Len(pos) :
            /\ tMorse[pos[k]] = "." => tEvents[on[k]].duration = unit
            /\ tMorse[pos[k]] = "-" => tEvents[on[k]].duration = Times(3, unit)
            /\ (k < Len(pos) /\ pos[k + 1] = pos[k] + 1) =>
                 /\ on[k + 1] = on[k] + 2
                 /\ tEvents[on[k] + 1] = MorseEvent("off", unit)

\* an event lasting a whole number of ms
Dur(type, ms) == MorseEvent(type, Num(ms))

\* "... --- ..." at wpm 20: dots of 60 ms, dashes of 180 ms, intra-character
\* gaps of 60 ms, inter-character gaps of 180 ms
C5_Witness ==
  /\ Generated
  /\ tMorse = SOS_CODE
  /\ tConfig.wpm = 20 /\ tConfig.farnsworth = 20
  /\ tEvents =
       << Dur("on", 60), Dur("off", 60), Dur("on", 60),
          Dur("off", 60), Dur("on", 60), Dur("off", 180),
          Dur("on", 180), Dur("off", 60), Dur("on", 180),
          Dur("off", 60), Dur("on", 180), Dur("off", 180),
          Dur("on", 60), Dur("off", 60), Dur("on", 60),
          Dur("off", 60), Dur("on", 60) >>

\* C8: a config with wpm <= 0 is rejected by the generator, and no event
\* with a non-finite or negative duration is ever produced
C8_InvalidWpmRejected ==
  tPc # "code" =>
    /\ tConfig.wpm <= 0 => tPc = "rejected"
    /\ \A i \in 1..Len(tEvents) :
         /\ IsFinite(tEvents[i].duration)
         /\ LessEq(Num(0), tEvents[i].duration)

\* the state stopPlayback leaves behind
ResetState ==
  /\ timers = {}
  /\ timeoutRefs = <<>>
  /\ activeGainNodeRef = NULL
  /\ connected = {}
  /\ oscillators = <<>>
  /\ ~isLightActive
  /\ vibration = Num(0)
  /\ playback = [isPlaying |-> FALSE, isPaused |-> FALSE,
                 progress |-> Num(0), currentIndex |-> 0]

\* C1: whatever the state it was called in, stopPlayback leaves no pending
\* timer, no connected session gain, the light off and playback reset, and
\* calling it again would change nothing
C1_StopResets ==
  lastCall.op = "stopPlayback" => (ResetState /\ stopPlayback = Untouched)

\* stopPlayback has run while a session was playing
C1_Witness ==
  /\ lastCall = [op |-> "stopPlayback", wasPlaying |-> TRUE]
  /\ sessions >= 1
  /\ ResetState

\* C2: after playSequence was called while a session was playing there is
\* exactly one active session, the new one: every pending timer, every
\* registered handle, every audible oscillator and the only connected gain
\* node belong to it
C2_OneActiveSession ==
  lastCall = [op |-> "playSequence", wasPlaying |-> TRUE] =>
    /\ playback.isPlaying
    /\ activeGainNodeRef = sessions
    /\ connected = {sessions}
    /\ timers # {}
    /\ \A t \in timers : t.session = sessions
    /\ \A i \in 1..Len(timeoutRefs) : timeoutRefs[i].session = sessions
    /\ \A i \in 1..Len(oscillators) : oscillators[i].gain = sessions

\* a second session has been started while the first was playing
C2_Witness ==
  /\ lastCall = [op |-> "playSequence", wasPlaying |-> TRUE]
  /\ sessions = 2
  /\ playback.isPlaying
  /\ Cardinality(timers) >= 3

\* one microsecond, in seconds
MICROSECOND == Quotient(1, 1000000)

\* the offset ms of real-time playback, in milliseconds, and the time sec of
\* offline rendering, in seconds, are the same instant to the microsecond
SameInstant(ms, sec) ==
  LET d == Minus(Ratio(ms, Num(1000)), sec)
  IN Less(Negate(MICROSECOND), d) /\ Less(d, MICROSECOND)

\* C9: with the Telegraph click every On event sounds for min(30 ms, d) from
\* its offset in real-time playback exactly as in offline rendering: both
\* switch the oscillator on and off at the same offsets
C9_ClickSameInBothModes ==
  ( /\ lastCall.op = "playSequence"
    /\ playback.isPlaying
    /\ options.enableSound
    /\ config.soundType = TELEGRAPH ) =>
    LET offline == renderAudioToWav(StringToPlay, config).oscillators
    IN /\ Len(oscillators) = Len(offline)
       /\ \A k \in 1..Len(offline) :
            /\ SameInstant(oscillators[k].start, offline[k].start)
            /\ SameInstant(oscillators[k].stop, offline[k].stop)

\* C10: where no AudioContext can be created and the light or the vibration
\* is enabled, playSequence still starts the session and schedules the
\* callback of every event
C10_DegradesWithoutAudio ==
  ( /\ lastCall.op = "playSequence"
    /\ ~platform.audio
    /\ trim(StringToPlay) # <<>>
    /\ (options.enableLight \/ options.enableVibrate) ) =>
    /\ playback.isPlaying
    /\ Cardinality({t \in timers : t.kind = "event"})
         = Len(generateTimingSequence(StringToPlay, config))

\* the 16-bit value bufferToWav stored in sample slot k (from 0)
StoredInt16(k) ==
  Int16FromLE(wWav.bytes[44 + 2 * k + 1], wWav.bytes[44 + 2 * k + 2])

\* the value C11 gives for a sample of q quarters: after clamping,
\* trunc(s * 32768) for s < 0 and trunc(s * 32767) for s >= 0
ClaimedInt16(q) ==
  LET sample == Clamp(q)
  IN IF sample < 0
     THEN TruncDiv(sample * 32768, SampleDenominator)
     ELSE TruncDiv(sample * 32767, SampleDenominator)

\* C11: every sample the loop converts is stored as trunc(s * 32768) when it
\* is negative and trunc(s * 32767) otherwise, after clamping to [-1, 1]
\* (the loop reads position headerEnd + k into slot k)
C11_AsymmetricScaling ==
  wPc = "encoded" =>
    \A k \in 0..(wBuffer.length - wWav.headerEnd - 1) :
      StoredInt16(k) = ClaimedInt16(wBuffer.data[wWav.headerEnd + k + 1])

\* C12: a mono buffer of N samples gives exactly 44 + 2N bytes, with the
\* RIFF length field 36 + 2N and the data-chunk length field 2N, and the
\* header leaves the write position at 44
C12_WavSize ==
  wPc = "encoded" =>
    LET n == wBuffer.length
    IN /\ Len(wWav.bytes) = 44 + 2 * n
       /\ Uint32FromLE(SubSeq(wWav.bytes, 5, 8)) = 36 + 2 * n
       /\ Uint32FromLE(SubSeq(wWav.bytes, 41, 44)) = 2 * n
       /\ wWav.headerEnd = 44

\* a buffer of 46 samples has been encoded into 136 bytes
C12_Witness ==
  /\ wPc = "encoded"
  /\ wBuffer.length = 46
  /\ Len(wWav.bytes) = 136
  /\ Uint32FromLE(SubSeq(wWav.bytes, 41, 44)) = 92

\* A finite number that is not negative is exactly m * 2^e. The operators
\* below compute with such values over the natural numbers, without
\* rounding: the sum of two of them, their order (-1, 0 or 1), the value of
\* a whole number and the sum of the durations of a sequence.
ExactPlus(a, b) ==
  LET e == IF a.e < b.e THEN a.e ELSE b.e
  IN [m |-> BigAdd(BigShl(a.m, a.e - e), BigShl(b.m, b.e - e)), e |-> e]

ExactCmp(a, b) ==
  LET e == IF a.e < b.e THEN a.e ELSE b.e
  IN BigCmp(BigShl(a.m, a.e - e), BigShl(b.m, b.e - e))

ExactOf(n) == [m |-> BigFromInt(n), e |-> 0]

RECURSIVE ExactSum(_)
ExactSum(events) ==
  IF events = <<>> THEN ExactOf(0)
  ELSE ExactPlus(ExactSum(Tail(events)),
                 [m |-> Head(events).duration.m,
                  e |-> Head(events).duration.e])

\* (T + 500) * 44100 for the sum T of the durations of the generated events
ScaledDuration ==
  LET padded == ExactPlus(ExactSum(tEvents), ExactOf(500))
  IN [m |-> BigMulSmall(padded.m, 44100), e |-> padded.e]

\* C13: offline rendering of any code string ends without an exception with
\* a buffer of exactly ceil((T + 500) * 44100 / 1000) frames, T the sum of
\* the event durations in ms: the frame count is the whole number n with
\* 1000 * (n - 1) < (T + 500) * 44100 <= 1000 * n; an empty sequence gives
\* the 22050 frames of the 500 ms tail
C13_FrameCount ==
  (tPc = "rendered" /\ tConfig.wpm > 0) =>
    LET frames == tRender.totalFrames
        n      == BigToInt(BigShl(frames.m, frames.e))
    IN /\ ~tRender.threw
       /\ IsFinite(frames) /\ ~frames.neg /\ frames.e >= 0
       /\ ExactCmp(ExactOf(1000 * (n - 1)), ScaledDuration) < 0
       /\ ExactCmp(ScaledDuration, ExactOf(1000 * n)) <= 0
       /\ tEvents = <<>> => frames = Num(22050)

\* C14: in the generated sequence On and Off events strictly alternate and
\* a non-empty sequence starts and ends with an On event
C14_Alternation ==
  (Generated /\ tConfig.wpm > 0) =>
    /\ \A i \in 1..(Len(tEvents) - 1) : tEvents[i].type # tEvents[i + 1].type
    /\ tEvents # <<>> =>
         (tEvents[1].type = "on" /\ tEvents[Len(tEvents)].type = "on")

\* the toggle of key would turn off the last enabled one of sound and light
LastEnabled(key) ==
  \/ key = "enableSound" /\ options.enableSound /\ ~options.enableLight
  \/ key = "enableLight" /\ options.enableLight /\ ~options.enableSound

\* C15: after any sequence of toggleOption calls at least one of enableSound
\* and enableLight is true; a toggle that would turn off the last enabled
\* one of the two leaves the options unchanged, and a toggle of
\* enableVibrate or loop is never blocked
C15_SoundOrLight ==
  /\ [](options.enableSound \/ options.enableLight)
  /\ [][\A key \in OPTION_KEYS :
          ToggleOption(key) =>
            /\ LastEnabled(key) => options' = options
            /\ key \in {"enableVibrate", "loop"} =>
                 options' = [options EXCEPT ![key] = ~options[key]]]_vars

\* sound was turned off, vibration and loop were turned on, and the light
\* is the last enabled one of the two
C15_Witness ==
  /\ lastCall.op = "other"
  /\ options = [enableSound |-> FALSE, enableLight |-> TRUE,
                enableVibrate |-> TRUE, loop |-> TRUE]
  /\ LastEnabled("enableLight")

\* nothing of a session is left: not playing, light off, no timer pending
SessionEnded ==
  /\ ~playback.isPlaying
  /\ ~isLightActive
  /\ timers = {}
  /\ timeoutRefs = <<>>

\* the end-of-sequence timer of a session is due after, and was registered
\* after, every other timer of that session
EndHandlerLast ==
  \A t \in timers :
    t.kind = "end" =>
      /\ t.at = Plus(t.totalDuration, Num(100))
      /\ \A u \in timers :
           (u.session = t.session /\ u # t) =>
             (Less(u.at, t.at) /\ Earlier(u.id, t.id))

\* C16: a session playSequence started ends by itself: its end-of-sequence
\* timer (total duration + 100 ms) fires after every event callback of the
\* session and runs stopPlayback, so eventually isPlaying is false, the
\* light is off and no timer handle is pending; and in every reachable
\* state isPlaying false implies the light is off and no timer is pending
C16_SessionEnds ==
  /\ [](~playback.isPlaying => SessionEnded)
  /\ []EndHandlerLast
  /\ [][(timers # {} /\ NextTimer.kind = "end" /\ FireTimer)
          => (timers = {NextTimer} /\ SessionEnded')]_vars
  /\ (playback.isPlaying ~> SessionEnded)

\* every event callback of a session has run and only its end-of-sequence
\* timer is pending
C16_Witness ==
  /\ playback.isPlaying
  /\ playback.progress = Num(1)
  /\ Cardinality(timers) = 1
  /\ NextTimer.kind = "end"
  /\ Len(timeoutRefs) > 1

\* progress p is strictly below 1
BelowOne(p) == Less(p, Num(1))

\* C17: when the timer of the i-th event fires, progress is set to (sum of
\* the durations of the events before i) / (total duration), the delay the
\* timer was registered with over the total: progress is 0 at the first
\* event and strictly below 1 at every event callback, so it is below 1
\* for as long as the session plays
C17_ProgressAtEvent ==
  /\ [][(timers # {} /\ NextTimer.kind = "event" /\ FireTimer) =>
          /\ playback'.progress =
               Fraction(NextTimer.at, NextTimer.totalDuration)
          /\ BelowOne(playback'.progress)
          /\ NextTimer.at = Num(0) => playback'.progress = Num(0)]_vars
  /\ [](playback.isPlaying => BelowOne(playback.progress))

====
